---- MODULE Spec2Model ----
(***************************************************************************)
(* Session manager of the Minecraft MCP server (tools/connection.js and    *)
(* the MinecraftMCP constructor of index.js): the connection state         *)
(* machine, credential retention and reconnection scheduling; the          *)
(* protected-action handlers with their denial capture and claim lookup;   *)
(* openContainer; the chat log and its message classifier;                 *)
(* checkClaimStatus; getChatHistory; and callTool.                         *)
(*                                                                         *)
(* JavaScript runs one handler at a time, so every action below is one     *)
(* run-to-completion step: a tool call up to its first await, a transport  *)
(* event handler, or a timer callback.                                     *)
(***************************************************************************)
EXTENDS Integers, Sequences, FiniteSets, TLC

VARIABLES
    connectionState,      \* this.connectionState
    connectArgs,          \* this.connectArgs (NULL or the stored credentials)
    reconnectAttempt,     \* this.reconnectAttempt
    lastDisconnectReason, \* this.lastDisconnectReason
    bot,                  \* this.bot: 0 for null, else the id of the bot object
    attempts,             \* one record per connect call that passed the busy check
    timers,               \* pending setTimeout callbacks, in creation order
    call,                 \* the protected-action tool call under observation
    listeners,            \* temporary 'message' listeners: <<bot id, owner>>
    world,                \* what the server holds at the target of the call
    sent,                 \* number of /trustlist commands sent
    chatLog,              \* this.chatLog
    now,                  \* Date.now()
    signPlacementTime,    \* signPlacementTime of the handler of each bot
    events,               \* number of events the bot has emitted
    claimInfo,            \* the claimInfo object of checkClaimStatus
    lookupState,          \* the promise of checkClaimStatus
    reply,                \* what the last tool call returned
    other                 \* a second protected-action call, running beside call

vars == <<connectionState, connectArgs, reconnectAttempt, lastDisconnectReason,
          bot, attempts, timers, call, listeners, world, sent,
          chatLog, now, signPlacementTime, events, claimInfo, lookupState,
          reply, other>>

\* the state of the protected-action protocol
pavars == <<call, listeners, world, sent>>

\* the chat log, the clock, the claim lookup, the tool results and the
\* second protected action
iovars == <<chatLog, now, signPlacementTime, events, claimInfo, lookupState,
            reply, other>>

----------------------------------------------------------------------------
(* Bounds of the model *)

\* connect calls that pass the busy check (each creates at most one bot)
MaxAttempts == 3
MaxEvents == 3
MaxChatEvents == 2
MaxLogEvents == 1
MaxTicks == 2
TickLength == 600

(* Program constants *)

maxReconnectAttempts == 10
baseReconnectDelay == 2000
ReconnectDelayCap == 60000
ConnectTimeout == 30000
CleanupWait == 500

NULL == "null"
Creds == {"credA", "credB"}
States == {"disconnected", "connecting", "connected", "reconnecting"}

Min(a, b) == IF a <= b THEN a ELSE b

RECURSIVE Pow2(_)
Pow2(n) == IF n <= 0 THEN 1 ELSE 2 * Pow2(n - 1)

Remove(seq, i) == SubSeq(seq, 1, i - 1) \o SubSeq(seq, i + 1, Len(seq))

----------------------------------------------------------------------------
(* Timers.  Every timer is created with a fixed delay; a timer created     *)
(* earlier with a delay that is not larger fires first.                    *)

CanFire(i) ==
    /\ i \in 1..Len(timers)
    /\ \A j \in 1..(i - 1) : timers[j].delay > timers[i].delay

Timer(kind, delay, att) == [kind |-> kind, delay |-> delay, att |-> att]

----------------------------------------------------------------------------
(* A connect call that passed the busy check.  phase "wait" is the 500 ms  *)
(* cleanup wait, "open" is after the promise executor created the bot,     *)
(* "nobot" is after createBot threw.  resolved is the closure variable of  *)
(* the executor; promise is the state of the promise connect returns.      *)
(* transport is the state of the bot object the attempt created, handlers  *)
(* the number of chat-log 'message' handlers attached to that bot.         *)

NewAttempt ==
    [phase |-> "wait", resolved |-> FALSE, promise |-> "pending",
     transport |-> "none", spawned |-> FALSE, errored |-> FALSE,
     handlers |-> 0]

\* bot.quit() on bot b: an open transport starts closing
Quit(atts, b) ==
    IF b # 0 /\ atts[b].transport = "live"
    THEN [atts EXCEPT ![b].transport = "quit"]
    ELSE atts

\* finish(false, err) of attempt a, applied to the attempts atts
FinishFail(atts, a) ==
    IF atts[a].resolved THEN atts
    ELSE [atts EXCEPT ![a].resolved = TRUE, ![a].promise = "rejected"]

\* finish(true, result) of attempt a
FinishOk(atts, a) ==
    IF atts[a].resolved THEN atts
    ELSE [atts EXCEPT ![a].resolved = TRUE, ![a].promise = "fulfilled"]

----------------------------------------------------------------------------
(* Protected actions: placeBlock and breakBlock (tools/building.js),       *)
(* placeSign, editSign, the chest placement of createChestShop and         *)
(* mountEntity (tools/signs.js), interactEntity, and checkClaimStatus.     *)
(* One tool call is followed from its start to its result.                 *)

\* denial messages kept per call, and connect calls admitted while the
\* protected action is followed
MaxDenials == 2
MaxSessions == 2

SettleDelay == 300
EditSettleDelay == 350
TextWait == 250
LookupWindow == 1500

Kinds == {"place_block", "break_block", "place_sign", "edit_sign",
          "place_chest", "mount_entity", "interact_entity"}

\* the action closure is awaited (placeBlock, dig, activateEntity) or runs
\* inside the calling step (_client.write, mount); interactEntity with an
\* item (useOn) is the awaited case settling at once
Awaited(kind) ==
    kind \in {"place_block", "break_block", "place_sign", "place_chest",
              "interact_entity"}

\* what the target can hold when the listener is attached: the handlers
\* return before that for a solid block (place_block, place_chest) and for
\* air (break_block); a sign may have no block entity yet (NULL)
PreStates(kind) ==
    CASE kind = "place_block" -> {"air", "water"}
      [] kind = "break_block" -> {"stone"}
      [] kind = "place_sign" -> {"air", "water"}
      [] kind = "place_chest" -> {"air", "water"}
      [] kind = "edit_sign" -> {"old text", NULL}
      [] OTHER -> {"apart"}

\* what the target holds when the server carried the action out
Effect(kind) ==
    CASE kind = "place_block" -> "stone"
      [] kind = "break_block" -> "air"
      [] kind = "place_sign" -> "oak_sign"
      [] kind = "place_chest" -> "chest"
      [] kind = "edit_sign" -> "new text"
      [] OTHER -> "riding"

\* server messages, and the tests the listeners make on them
Messages == {"You don't have Steve's permission to build here.",
             "That belongs to Alex.",
             "Claim owner: Steve",
             "No claim exists here."}

\* the includes() tests of onMessage on the lower-cased text
IsDenial(m) ==
    m \in {"You don't have Steve's permission to build here.",
           "That belongs to Alex."}

\* checkClaimStatus.onMessage applied to claimInfo ci
ParseTrust(ci, m) ==
    IF m = "No claim exists here." THEN [ci EXCEPT !.claimed = FALSE]
    ELSE IF m = "Claim owner: Steve"
         THEN [ci EXCEPT !.claimed = TRUE, !.owner = "Steve"]
         ELSE ci

NoClaimInfo == [claimed |-> FALSE, owner |-> NULL]

\* the call before it starts.  bot is the bot the capture listener was
\* attached to, lbot the bot handed to checkClaimStatus, obs the result of
\* the re-observation, result/text/owner what the tool call returned.
NoCall ==
    [kind |-> NULL, phase |-> "idle", pre |-> NULL, lines |-> FALSE,
     bot |-> 0, lbot |-> 0, denials |-> <<>>, claimInfo |-> NoClaimInfo,
     silent |-> FALSE, obs |-> "unobserved",
     result |-> "pending", text |-> NULL, owner |-> NULL]

\* a second call of placeBlock or breakBlock before it starts.  target is
\* what the server holds at its target, the other fields are as in NoCall.
NoOther ==
    [kind |-> NULL, phase |-> "idle", pre |-> NULL, target |-> NULL,
     bot |-> 0, lbot |-> 0, denials |-> <<>>, claimInfo |-> NoClaimInfo,
     result |-> "pending", text |-> NULL, owner |-> NULL]

NoActionYet ==
    /\ call = NoCall
    /\ listeners = {}
    /\ world = NULL
    /\ sent = 0

\* the tool call returns res
Return(c, res, text, owner) ==
    [c EXCEPT !.phase = "done", !.result = res, !.text = text, !.owner = owner]

\* this.bot.removeListener('message', onMessage) with this.bot = b
RemoveListener(ls, b, who) == ls \ {<<b, who>>}

----------------------------------------------------------------------------
(* Message texts.  A text is the sequence of its characters, so that the   *)
(* includes() tests and regular expressions of the listeners are computed  *)
(* on the text itself.                                                     *)

UpperCase == <<"A", "B", "C", "D", "E", "F", "G", "H", "I", "J", "K", "L", "M",
               "N", "O", "P", "Q", "R", "S", "T", "U", "V", "W", "X", "Y", "Z">>
LowerCase == <<"a", "b", "c", "d", "e", "f", "g", "h", "i", "j", "k", "l", "m",
               "n", "o", "p", "q", "r", "s", "t", "u", "v", "w", "x", "y", "z">>
Digits == {"0", "1", "2", "3", "4", "5", "6", "7", "8", "9"}

\* \w of the regular expressions, and \s
WordChars ==
    {UpperCase[i] : i \in 1..26} \cup {LowerCase[i] : i \in 1..26}
        \cup Digits \cup {"_"}
Spaces == {" ", "\t", "\n"}

\* the lower-case form of the character c
LowerChar(c) ==
    IF \E k \in 1..26 : UpperCase[k] = c
    THEN LowerCase[CHOOSE k \in 1..26 : UpperCase[k] = c]
    ELSE c

\* String.prototype.toLowerCase
RECURSIVE ToLowerCase(_)
ToLowerCase(s) ==
    IF s = <<>> THEN <<>> ELSE <<LowerChar(Head(s))>> \o ToLowerCase(Tail(s))

\* p occurs in s at position i
OccursAt(s, p, i) ==
    /\ i >= 1
    /\ i + Len(p) - 1 <= Len(s)
    /\ SubSeq(s, i, i + Len(p) - 1) = p

\* String.prototype.includes
Includes(s, p) == \E i \in 1..(Len(s) + 1) : OccursAt(s, p, i)

\* the first position at which p occurs in s (0 when it does not)
IndexOf(s, p) ==
    IF Includes(s, p)
    THEN CHOOSE i \in 1..(Len(s) + 1) :
            /\ OccursAt(s, p, i)
            /\ \A j \in 1..(i - 1) : ~OccursAt(s, p, j)
    ELSE 0

\* String.prototype.trim
RECURSIVE TrimLeft(_)
TrimLeft(s) ==
    IF s # <<>> /\ Head(s) \in Spaces THEN TrimLeft(Tail(s)) ELSE s

RECURSIVE TrimRight(_)
TrimRight(s) ==
    IF s # <<>> /\ s[Len(s)] \in Spaces
    THEN TrimRight(SubSeq(s, 1, Len(s) - 1))
    ELSE s

Trim(s) == TrimRight(TrimLeft(s))

\* String.prototype.split(',')
RECURSIVE SplitComma(_)
SplitComma(s) ==
    LET k == IndexOf(s, <<",">>)
    IN  IF k = 0 THEN <<s>>
        ELSE <<SubSeq(s, 1, k - 1)>> \o SplitComma(SubSeq(s, k + 1, Len(s)))

\* Array.prototype.filter(s => s)
RECURSIVE NonEmpty(_)
NonEmpty(q) ==
    IF q = <<>> THEN <<>>
    ELSE IF Head(q) = <<>> THEN NonEmpty(Tail(q))
    ELSE <<Head(q)>> \o NonEmpty(Tail(q))

\* the names of the list without the trim
NameListUntrimmed(s) == NonEmpty(SplitComma(s))

\* match[1].split(',').map(s => s.trim()).filter(s => s)
NameList(s) ==
    LET parts == SplitComma(s)
    IN  NonEmpty([i \in 1..Len(parts) |-> Trim(parts[i])])

\* the character U+2192 (rightwards arrow)
Arrow == "U+2192"

\* "You don't have permission to build in Bob's claim"
T_Deny ==
    <<"Y", "o", "u", " ", "d", "o", "n", "'", "t", " ", "h", "a", "v", "e",
      " ", "p", "e", "r", "m", "i", "s", "s", "i", "o", "n", " ", "t", "o",
      " ", "b", "u", "i", "l", "d", " ", "i", "n", " ", "B", "o", "b", "'",
      "s", " ", "c", "l", "a", "i", "m">>

\* "Bob -> you: that belongs to Alice"
T_DenyPrivate ==
    <<"B", "o", "b", " ", "-", ">", " ", "y", "o", "u", ":", " ", "t", "h",
      "a", "t", " ", "b", "e", "l", "o", "n", "g", "s", " ", "t", "o", " ",
      "A", "l", "i", "c", "e">>

\* "Bob placed a sign @ world: x1, z2"
T_SignPlaced ==
    <<"B", "o", "b", " ", "p", "l", "a", "c", "e", "d", " ", "a", " ", "s",
      "i", "g", "n", " ", "@", " ", "w", "o", "r", "l", "d", ":", " ", "x",
      "1", ",", " ", "z", "2">>

\* "Bob places a sign @ world: x1, z2"
T_SignPlaces ==
    <<"B", "o", "b", " ", "p", "l", "a", "c", "e", "s", " ", "a", " ", "s",
      "i", "g", "n", " ", "@", " ", "w", "o", "r", "l", "d", ":", " ", "x",
      "1", ",", " ", "z", "2">>

\* "  Hello"
T_SignLine ==
    <<" ", " ", "H", "e", "l", "l", "o">>

\* "Alice: hi"
T_AliceHi ==
    <<"A", "l", "i", "c", "e", ":", " ", "h", "i">>

\* "Server restarting"
T_Info ==
    <<"S", "e", "r", "v", "e", "r", " ", "r", "e", "s", "t", "a", "r", "t",
      "i", "n", "g">>

\* "Owner: Alice"
T_Owner ==
    <<"O", "w", "n", "e", "r", ":", " ", "A", "l", "i", "c", "e">>

\* "Builders: Bob, Carol"
T_Builders ==
    <<"B", "u", "i", "l", "d", "e", "r", "s", ":", " ", "B", "o", "b", ",",
      " ", "C", "a", "r", "o", "l">>

\* "No claim exists here."
T_NoClaim ==
    <<"N", "o", " ", "c", "l", "a", "i", "m", " ", "e", "x", "i", "s", "t",
      "s", " ", "h", "e", "r", "e", ".">>

\* "That command is not recognized"
T_NotRecognized ==
    <<"T", "h", "a", "t", " ", "c", "o", "m", "m", "a", "n", "d", " ", "i",
      "s", " ", "n", "o", "t", " ", "r", "e", "c", "o", "g", "n", "i", "z",
      "e", "d">>

\* "Alice"
T_Alice ==
    <<"A", "l", "i", "c", "e">>

\* "hi"
T_Hi ==
    <<"h", "i">>

\* the strings the listeners search for
Pattern ==
    [PlaceASign |->
        <<"p", "l", "a", "c", "e", " ", "a", " ", "s", "i", "g", "n", " ",
          "@">>,
     PlacedASign |->
        <<"p", "l", "a", "c", "e", "d", " ", "a", " ", "s", "i", "g", "n",
          " ", "@">>,
     AsciiArrow |->
        <<"-", ">">>,
     WhisperTo |->
        <<"w", "h", "i", "s", "p", "e", "r", " ", "t", "o">>,
     WhispersTo |->
        <<"w", "h", "i", "s", "p", "e", "r", "s", " ", "t", "o">>,
     DonTHave |->
        <<"d", "o", "n", "'", "t", " ", "h", "a", "v", "e">>,
     Permission |->
        <<"p", "e", "r", "m", "i", "s", "s", "i", "o", "n">>,
     BelongsTo |->
        <<"b", "e", "l", "o", "n", "g", "s", " ", "t", "o">>,
     ClaimedBy |->
        <<"c", "l", "a", "i", "m", "e", "d", " ", "b", "y">>,
     Claim |->
        <<"c", "l", "a", "i", "m">>,
     CanT |->
        <<"c", "a", "n", "'", "t">>,
     Cannot |->
        <<"c", "a", "n", "n", "o", "t">>,
     NotAllowed |->
        <<"n", "o", "t", " ", "a", "l", "l", "o", "w", "e", "d">>,
     ThatBelongsTo |->
        <<"t", "h", "a", "t", " ", "b", "e", "l", "o", "n", "g", "s", " ",
          "t", "o">>,
     NoClaimExists |->
        <<"N", "o", " ", "c", "l", "a", "i", "m", " ", "e", "x", "i", "s",
          "t", "s">>,
     Wilderness |->
        <<"W", "i", "l", "d", "e", "r", "n", "e", "s", "s">>,
     LowerOwner |->
        <<"o", "w", "n", "e", "r", ":">>,
     UpperOwner |->
        <<"O", "w", "n", "e", "r", ":">>,
     Managers |->
        <<"M", "a", "n", "a", "g", "e", "r", "s", ":">>,
     Builders |->
        <<"B", "u", "i", "l", "d", "e", "r", "s", ":">>,
     Containers |->
        <<"C", "o", "n", "t", "a", "i", "n", "e", "r", "s", ":">>,
     Accessors |->
        <<"A", "c", "c", "e", "s", "s", "o", "r", "s", ":">>]

\* the texts the server sends in the chat-log specification
ChatTexts ==
    {T_Deny, T_DenyPrivate, T_SignPlaced, T_SignPlaces, T_SignLine, T_AliceHi,
     T_Info}

\* the lines a claim lookup can receive
TrustLines == {T_Owner, T_Builders, T_NoClaim, T_NotRecognized, T_Info}

\* the position argument of the 'message' event
Positions == {"chat", "system", "game_info"}

----------------------------------------------------------------------------
(* The tests the listeners make on a text.  Texts are single lines.        *)

SignLineLength == 50
MinNameLength == 3
MaxNameLength == 16

\* /\bplaced? a sign @/
SignPlacement(s) ==
    \E i \in 1..Len(s) :
        /\ \/ OccursAt(s, Pattern.PlaceASign, i)
           \/ OccursAt(s, Pattern.PlacedASign, i)
        /\ i = 1 \/ s[i - 1] \notin WordChars

\* /^\s{2,}/.test(msgText) && msgText.length < 50
SignContent(s) ==
    /\ Len(s) >= 2
    /\ s[1] \in Spaces
    /\ s[2] \in Spaces
    /\ Len(s) < SignLineLength

\* /\s*->\s*/ or /whispers? to/i or /\[.*\s*→\s*.*\]/
PrivateMessage(s) ==
    \/ Includes(s, Pattern.AsciiArrow)
    \/ LET lower == ToLowerCase(s)
       IN  Includes(lower, Pattern.WhisperTo) \/ Includes(lower, Pattern.WhispersTo)
    \/ \E j \in 1..Len(s) :
          /\ s[j] = Arrow
          /\ \E i \in 1..(j - 1) : s[i] = "["
          /\ \E k \in (j + 1)..Len(s) : s[k] = "]"

\* msgText.match(/^([A-Za-z0-9_]{3,16}): (.+)$/): the name ends at the first
\* colon, because a name holds no colon
ChatMatch(s) ==
    LET k == IndexOf(s, <<":">>)
    IN  /\ k - 1 >= MinNameLength
        /\ k - 1 <= MaxNameLength
        /\ \A i \in 1..(k - 1) : s[i] \in WordChars
        /\ Len(s) >= k + 2
        /\ s[k + 1] = " "

\* the two groups of the match
ChatUser(s) == SubSeq(s, 1, IndexOf(s, <<":">>) - 1)

ChatText(s) == SubSeq(s, IndexOf(s, <<":">>) + 2, Len(s))

\* a capture test that knows the permission phrase only
DeniesPermissionOnly(s) ==
    /\ Includes(ToLowerCase(s), Pattern.DonTHave)
    /\ Includes(ToLowerCase(s), Pattern.Permission)

\* the includes() tests of the capture listener on the lower-cased text
Denies(s) ==
    LET msgText == ToLowerCase(s)
    IN  \/ Includes(msgText, Pattern.DonTHave)
              /\ Includes(msgText, Pattern.Permission)
        \/ Includes(msgText, Pattern.BelongsTo)
        \/ Includes(msgText, Pattern.ClaimedBy)
        \/ Includes(msgText, Pattern.Claim)
              /\ (Includes(msgText, Pattern.CanT)
                    \/ Includes(msgText, Pattern.Cannot))
        \/ Includes(msgText, Pattern.NotAllowed)
        \/ Includes(msgText, Pattern.ThatBelongsTo)

\* the tests above for every text of the model, evaluated once
TextTests ==
    [s \in ChatTexts \cup TrustLines |->
        [blank |-> Trim(s) = <<>>,
         signPlacement |-> SignPlacement(s),
         signContent |-> SignContent(s),
         private |-> PrivateMessage(s),
         chatMatch |-> ChatMatch(s),
         denies |-> Denies(s)]]

----------------------------------------------------------------------------
(* The chat log *)

LogCapacity == 100
DedupWindow == 1000
SignWindow == 500

\* an entry of the chat log
ChatEntry(user, message, t) ==
    [type |-> "chat", user |-> user, message |-> message, position |-> NULL,
     timestamp |-> t]

SystemEntry(message, position, t) ==
    [type |-> "system", user |-> <<>>, message |-> message,
     position |-> position, timestamp |-> t]

\* a push that never evicts
PushUnbounded(log, e) == Append(log, e)

\* this.chatLog.push(e); if (this.chatLog.length > 100) this.chatLog.shift()
Push(log, e) ==
    IF Len(log) + 1 > LogCapacity THEN Tail(Append(log, e)) ELSE Append(log, e)

\* this.chatLog.some(...): the log holds the same chat line, younger than 1 s
IsDuplicate(log, user, message, t) ==
    \E i \in 1..Len(log) :
        /\ log[i].type = "chat"
        /\ log[i].user = user
        /\ log[i].message = message
        /\ t - log[i].timestamp < DedupWindow

\* the 'chat' handler of the connected bot
OnChat(log, user, message, t) == Push(log, ChatEntry(user, message, t))

\* the 'message' handler of the connected bot, run at time t with the log
\* and its signPlacementTime spt: the log and signPlacementTime it leaves
OnMessage(log, spt, s, position, t) ==
    IF position \notin {"system", "game_info"} THEN [log |-> log, spt |-> spt]
    ELSE IF TextTests[s].blank THEN [log |-> log, spt |-> spt]
    ELSE IF TextTests[s].signPlacement THEN [log |-> log, spt |-> t]
    ELSE IF t - spt < SignWindow /\ TextTests[s].signContent
         THEN [log |-> log, spt |-> spt]
    ELSE IF TextTests[s].private THEN [log |-> log, spt |-> spt]
    ELSE IF /\ TextTests[s].chatMatch
            /\ position = "system"
            /\ ~IsDuplicate(log, ChatUser(s), ChatText(s), t)
         THEN [log |-> Push(log, ChatEntry(ChatUser(s), ChatText(s), t)),
               spt |-> spt]
    ELSE [log |-> Push(log, SystemEntry(s, position, t)), spt |-> spt]

\* n chat-log handlers of one bot run on the message, one after the other
RECURSIVE Handle(_, _, _, _, _, _)
Handle(n, log, spt, s, position, t) ==
    IF n = 0 THEN [log |-> log, spt |-> spt]
    ELSE LET r == OnMessage(log, spt, s, position, t)
         IN  Handle(n - 1, r.log, r.spt, s, position, t)

\* a log of n entries, all of them older than the duplicate window
RECURSIVE OldLog(_)
OldLog(n) ==
    IF n = 0 THEN <<>>
    ELSE Append(OldLog(n - 1), SystemEntry(T_Info, "system", n))

\* Date.now() when the observation starts: later than every entry of an old
\* log by more than the duplicate window
Epoch == LogCapacity + DedupWindow

----------------------------------------------------------------------------
(* checkClaimStatus *)

\* the claimInfo object a lookup starts from (command_error is not set)
EmptyClaimInfo ==
    [claimed |-> FALSE, owner |-> NULL, builders |-> <<>>, containers |-> <<>>,
     accessors |-> <<>>, managers |-> <<>>, raw_messages |-> <<>>,
     command_error |-> FALSE]

\* what follows the first occurrence of label in s
After(s, label) == SubSeq(s, IndexOf(s, label) + Len(label), Len(s))

\* the first run of non-space characters of s
RECURSIVE Word(_)
Word(s) ==
    IF s = <<>> \/ Head(s) \in Spaces THEN <<>>
    ELSE <<Head(s)>> \o Word(Tail(s))

\* text.match(/[Oo]wner:\s*(\S+)/): the positions where the match can start
OwnerStarts(s) ==
    {i \in 1..Len(s) :
        /\ OccursAt(s, Pattern.LowerOwner, i) \/ OccursAt(s, Pattern.UpperOwner, i)
        /\ TrimLeft(SubSeq(s, i + Len(Pattern.UpperOwner), Len(s))) # <<>>}

\* match[1] of the leftmost match
OwnerName(s) ==
    LET i == CHOOSE i \in OwnerStarts(s) : \A j \in OwnerStarts(s) : i <= j
    IN  Word(TrimLeft(SubSeq(s, i + Len(Pattern.UpperOwner), Len(s))))

\* text.match(/Label:\s*(.+)/) matches: something follows the label
ListMatches(s, label) == After(s, label) # <<>>

\* match[1].split(',').map(s => s.trim()).filter(s => s)
ListOf(s, label) == NameList(TrimLeft(After(s, label)))

\* a parser that takes every line without a no-claim phrase for a claim
ParseLineAlwaysClaimed(ci, s) ==
    LET c == [ci EXCEPT !.raw_messages = Append(@, s)]
    IN  IF Includes(s, Pattern.NoClaimExists) \/ Includes(s, Pattern.Wilderness)
        THEN [c EXCEPT !.claimed = FALSE]
        ELSE [c EXCEPT !.claimed = TRUE]

\* onMessage of checkClaimStatus applied to the claimInfo ci
ParseLine(ci, s) ==
    LET c == [ci EXCEPT !.raw_messages = Append(@, s)]
    IN  IF Includes(s, Pattern.NoClaimExists) \/ Includes(s, Pattern.Wilderness)
        THEN [c EXCEPT !.claimed = FALSE]
        ELSE IF Includes(s, Pattern.LowerOwner) \/ Includes(s, Pattern.UpperOwner)
        THEN [c EXCEPT !.claimed = TRUE,
                       !.owner = IF OwnerStarts(s) # {} THEN OwnerName(s) ELSE @]
        ELSE IF Includes(s, Pattern.Managers)
        THEN [c EXCEPT !.claimed = TRUE,
                       !.managers = IF ListMatches(s, Pattern.Managers)
                                    THEN ListOf(s, Pattern.Managers) ELSE @]
        ELSE IF Includes(s, Pattern.Builders)
        THEN [c EXCEPT !.claimed = TRUE,
                       !.builders = IF ListMatches(s, Pattern.Builders)
                                    THEN ListOf(s, Pattern.Builders) ELSE @]
        ELSE IF Includes(s, Pattern.Containers)
        THEN [c EXCEPT !.claimed = TRUE,
                       !.containers = IF ListMatches(s, Pattern.Containers)
                                      THEN ListOf(s, Pattern.Containers) ELSE @]
        ELSE IF Includes(s, Pattern.Accessors)
        THEN [c EXCEPT !.claimed = TRUE,
                       !.accessors = IF ListMatches(s, Pattern.Accessors)
                                     THEN ListOf(s, Pattern.Accessors) ELSE @]
        ELSE IF Includes(s, T_NotRecognized)
        THEN [c EXCEPT !.command_error = TRUE]
        ELSE c

\* What a tool call returns: structured is whether it is an object with a
\* content array, text the lines of content[0].text.
\* text(msg) of helpers.js
Text(msg) == [structured |-> TRUE, isError |-> FALSE, text |-> msg]

\* the isError results of callTool
ErrorResult(msg) == [structured |-> TRUE, isError |-> TRUE, text |-> msg]

\* no tool call has returned
NoReply == [structured |-> FALSE, isError |-> FALSE, text |-> <<>>]

\* before any chat event, lookup or tool result
NoChatYet ==
    /\ chatLog = <<>>
    /\ now = Epoch
    /\ signPlacementTime = [a \in 1..MaxAttempts |-> 0]
    /\ events = 0
    /\ claimInfo = EmptyClaimInfo
    /\ lookupState = "idle"
    /\ reply = NoReply
    /\ other = NoOther

----------------------------------------------------------------------------
(* The session manager *)

Init ==
    /\ connectionState = "disconnected"
    /\ connectArgs = NULL
    /\ reconnectAttempt = 0
    /\ lastDisconnectReason = NULL
    /\ bot = 0
    /\ attempts = <<>>
    /\ timers = <<>>
    /\ NoActionYet
    /\ NoChatYet

----------------------------------------------------------------------------
(* mcp.connect *)

\* an executor that attaches the chat-log handler of the new bot and those
\* of the bots before it
ExecutorLeaks(a, atts, tm, st, ok) ==
    IF ok
    THEN /\ attempts' = [atts EXCEPT ![a].phase = "open",
                                     ![a].transport = "live",
                                     ![a].handlers = a]
         /\ bot' = a
         /\ timers' = Append(tm, Timer("timeout", ConnectTimeout, a))
         /\ connectionState' = st
    ELSE /\ attempts' = [FinishFail(atts, a) EXCEPT ![a].phase = "nobot"]
         /\ bot' = bot
         /\ timers' = tm
         /\ connectionState' = "disconnected"

\* The promise executor of attempt a: createBot, the handlers, the 30 s timer.
\* st is connectionState as the caller left it, ok is whether createBot returns.
Executor(a, atts, tm, st, ok) ==
    IF ok
    THEN /\ attempts' = [atts EXCEPT ![a].phase = "open",
                                     ![a].transport = "live",
                                     ![a].handlers = 1]
         /\ bot' = a
         /\ timers' = Append(tm, Timer("timeout", ConnectTimeout, a))
         /\ connectionState' = st
    ELSE /\ attempts' = [FinishFail(atts, a) EXCEPT ![a].phase = "nobot"]
         /\ bot' = bot
         /\ timers' = tm
         /\ connectionState' = "disconnected"

\* connect after the busy check: set the state, clean up the existing bot
\* (then wait 500 ms), else run the executor at once.
StartConnect(isReconnect, tm) ==
    LET st == IF isReconnect THEN "reconnecting" ELSE "connecting"
        a == Len(attempts) + 1
    IN  IF bot # 0
        THEN /\ connectionState' = st
             /\ attempts' = Append(Quit(attempts, bot), NewAttempt)
             /\ bot' = 0
             /\ timers' = Append(tm, Timer("cleanup", CleanupWait, a))
        ELSE \E ok \in BOOLEAN :
                Executor(a, Append(attempts, NewAttempt), tm, st, ok)

Busy == connectionState \in {"connecting", "reconnecting"}

\* the connect tool, called by the user with credentials c
Connect(c) ==
    /\ connectArgs' = c
    /\ IF Busy
       THEN UNCHANGED <<connectionState, bot, attempts, timers>>
       ELSE /\ Len(attempts) < MaxAttempts
            /\ StartConnect(FALSE, timers)
    /\ UNCHANGED <<reconnectAttempt, lastDisconnectReason>>
    /\ UNCHANGED pavars
    /\ UNCHANGED iovars

\* the 500 ms cleanup wait of an attempt is over: the executor runs
CleanupDone(i) ==
    /\ CanFire(i)
    /\ timers[i].kind = "cleanup"
    /\ \E ok \in BOOLEAN :
          Executor(timers[i].att, attempts, Remove(timers, i), connectionState, ok)
    /\ UNCHANGED <<connectArgs, reconnectAttempt, lastDisconnectReason>>
    /\ UNCHANGED pavars
    /\ UNCHANGED iovars

----------------------------------------------------------------------------
(* mcp.scheduleReconnect *)

\* a backoff that starts one doubling too far
ReconnectDelayDoubled(n) == Min(baseReconnectDelay * Pow2(n), ReconnectDelayCap)

\* the delay of reconnect attempt n
ReconnectDelay(n) == Min(baseReconnectDelay * Pow2(n - 1), ReconnectDelayCap)

\* scheduleReconnect, run with the pending timers tm
ScheduleReconnect(tm) ==
    IF reconnectAttempt >= maxReconnectAttempts
    THEN /\ connectionState' = "disconnected"
         /\ reconnectAttempt' = reconnectAttempt
         /\ timers' = tm
    ELSE /\ reconnectAttempt' = reconnectAttempt + 1
         /\ connectionState' = "reconnecting"
         /\ timers' = Append(tm, Timer("retry", ReconnectDelay(reconnectAttempt + 1), 0))

\* the callback scheduleReconnect armed: connect(this.connectArgs, true).
\* With no stored credentials the call throws on its parameters and the
\* callback's catch swallows it; a busy session answers 'Already ...'.
RetryFire(i) ==
    /\ CanFire(i)
    /\ timers[i].kind = "retry"
    /\ IF connectArgs = NULL \/ Busy
       THEN /\ timers' = Remove(timers, i)
            /\ UNCHANGED <<connectionState, bot, attempts>>
       ELSE /\ Len(attempts) < MaxAttempts
            /\ StartConnect(TRUE, Remove(timers, i))
    /\ UNCHANGED <<connectArgs, reconnectAttempt, lastDisconnectReason>>
    /\ UNCHANGED pavars
    /\ UNCHANGED iovars

----------------------------------------------------------------------------
(* The handlers connect registers on the bot of attempt a *)

\* a spawn handler that leaves reconnectAttempt as it is
BotSpawnKeepsCounter(a) ==
    /\ a \in 1..Len(attempts)
    /\ attempts[a].transport = "live"
    /\ ~attempts[a].spawned
    /\ ~attempts[a].errored
    /\ IF bot = 0
       THEN /\ attempts' = [attempts EXCEPT ![a].spawned = TRUE]
            /\ UNCHANGED <<connectionState, reconnectAttempt, lastDisconnectReason>>
       ELSE /\ connectionState' = "connected"
            /\ reconnectAttempt' = reconnectAttempt
            /\ lastDisconnectReason' = NULL
            /\ attempts' = [FinishOk(attempts, a) EXCEPT ![a].spawned = TRUE]
    /\ UNCHANGED <<connectArgs, bot, timers>>
    /\ UNCHANGED pavars
    /\ UNCHANGED iovars

\* bot.once('spawn'): reading this.bot.version throws when this.bot is null
\* and the handler stops there.  A transport that reported an error before
\* spawning does not spawn afterwards.
BotSpawn(a) ==
    /\ a \in 1..Len(attempts)
    /\ attempts[a].transport = "live"
    /\ ~attempts[a].spawned
    /\ ~attempts[a].errored
    /\ IF bot = 0
       THEN /\ attempts' = [attempts EXCEPT ![a].spawned = TRUE]
            /\ UNCHANGED <<connectionState, reconnectAttempt, lastDisconnectReason>>
       ELSE /\ connectionState' = "connected"
            /\ reconnectAttempt' = 0
            /\ lastDisconnectReason' = NULL
            /\ attempts' = [FinishOk(attempts, a) EXCEPT ![a].spawned = TRUE]
    /\ UNCHANGED <<connectArgs, bot, timers>>
    /\ UNCHANGED pavars
    /\ UNCHANGED iovars

\* bot.on('error')
BotError(a) ==
    /\ a \in 1..Len(attempts)
    /\ attempts[a].transport = "live"
    /\ attempts' = [FinishFail(attempts, a) EXCEPT
                       ![a].errored = (@ \/ ~attempts[a].spawned)]
    /\ connectionState' = IF attempts[a].resolved THEN connectionState
                          ELSE "disconnected"
    /\ UNCHANGED <<connectArgs, reconnectAttempt, lastDisconnectReason, bot, timers>>
    /\ UNCHANGED pavars
    /\ UNCHANGED iovars

\* bot.on('kicked')
BotKicked(a) ==
    /\ a \in 1..Len(attempts)
    /\ attempts[a].transport = "live"
    /\ lastDisconnectReason' = "Kicked"
    /\ UNCHANGED <<connectionState, connectArgs, reconnectAttempt, bot, attempts, timers>>
    /\ UNCHANGED pavars
    /\ UNCHANGED iovars

\* bot.on('end'): the transport of attempt a closed, after a quit or by itself
BotEnd(a) ==
    /\ a \in 1..Len(attempts)
    /\ attempts[a].transport \in {"live", "quit"}
    /\ attempts' = [attempts EXCEPT ![a].transport = "ended"]
    /\ bot' = 0
    /\ LET wasConnected == connectionState = "connected"
       IN  IF wasConnected /\ connectArgs # NULL
           THEN ScheduleReconnect(timers)
           ELSE /\ connectionState' = IF attempts[a].resolved THEN connectionState
                                      ELSE "disconnected"
                /\ UNCHANGED <<reconnectAttempt, timers>>
    /\ UNCHANGED <<connectArgs, lastDisconnectReason>>
    /\ UNCHANGED pavars
    /\ UNCHANGED iovars

\* the 30 s timer of attempt a
TimeoutFire(i) ==
    /\ CanFire(i)
    /\ timers[i].kind = "timeout"
    /\ LET a == timers[i].att
       IN  IF ~attempts[a].resolved /\ connectionState # "connected"
           THEN /\ attempts' = FinishFail(Quit(attempts, bot), a)
                /\ connectionState' = "disconnected"
           ELSE UNCHANGED <<attempts, connectionState>>
    /\ timers' = Remove(timers, i)
    /\ UNCHANGED <<connectArgs, reconnectAttempt, lastDisconnectReason, bot>>
    /\ UNCHANGED pavars
    /\ UNCHANGED iovars

----------------------------------------------------------------------------
(* mcp.disconnect *)

\* a disconnect that quits the bot but keeps the reference to it
DisconnectKeepsBot ==
    /\ connectArgs' = NULL
    /\ reconnectAttempt' = 0
    /\ connectionState' = "disconnected"
    /\ attempts' = Quit(attempts, bot)
    /\ UNCHANGED <<bot, lastDisconnectReason, timers>>
    /\ UNCHANGED pavars
    /\ UNCHANGED iovars

Disconnect ==
    /\ connectArgs' = NULL
    /\ reconnectAttempt' = 0
    /\ connectionState' = "disconnected"
    /\ attempts' = Quit(attempts, bot)
    /\ bot' = 0
    /\ UNCHANGED <<lastDisconnectReason, timers>>
    /\ UNCHANGED pavars
    /\ UNCHANGED iovars

----------------------------------------------------------------------------

Next ==
    \/ \E c \in Creds : Connect(c)
    \/ Disconnect
    \/ \E i \in 1..Len(timers) : CleanupDone(i)
    \/ \E i \in 1..Len(timers) : RetryFire(i)
    \/ \E i \in 1..Len(timers) : TimeoutFire(i)
    \/ \E a \in 1..Len(attempts) : BotSpawn(a)
    \/ \E a \in 1..Len(attempts) : BotError(a)
    \/ \E a \in 1..Len(attempts) : BotKicked(a)
    \/ \E a \in 1..Len(attempts) : BotEnd(a)

Spec == Init /\ [][Next]_vars

TypeOK ==
    /\ connectionState \in States
    /\ connectArgs \in Creds \cup {NULL}
    /\ reconnectAttempt \in 0..maxReconnectAttempts
    /\ bot \in 0..Len(attempts)
    /\ Len(attempts) <= MaxAttempts

----------------------------------------------------------------------------
(* Timers always fire: the specification for what must eventually happen *)

TimersFire ==
    /\ WF_vars(\E i \in 1..Len(timers) : CleanupDone(i))
    /\ WF_vars(\E i \in 1..Len(timers) : RetryFire(i))
    /\ WF_vars(\E i \in 1..Len(timers) : TimeoutFire(i))

FairSpec == Spec /\ TimersFire

----------------------------------------------------------------------------
(* scheduleReconnect on its own: the session fields it reads are drawn     *)
(* from their ranges and the function is applied once.                     *)

BackoffInit ==
    /\ connectionState \in {"connected", "disconnected"}
    /\ connectArgs \in Creds
    /\ reconnectAttempt \in 0..maxReconnectAttempts
    /\ lastDisconnectReason \in {NULL, "Kicked"}
    /\ bot = 0
    /\ attempts = <<>>
    /\ timers = <<>>
    /\ NoActionYet
    /\ NoChatYet

BackoffStep ==
    /\ timers = <<>>
    /\ connectionState # "reconnecting"
    /\ ScheduleReconnect(timers)
    /\ UNCHANGED <<connectArgs, lastDisconnectReason, bot, attempts>>
    /\ UNCHANGED pavars
    /\ UNCHANGED iovars

SpecBackoff == BackoffInit /\ [][BackoffStep]_vars

----------------------------------------------------------------------------
(* The protected-action handlers.  Every action is one run-to-completion   *)
(* step of the tool call: up to the awaited action closure, from there to  *)
(* the settle delay, the continuation after the delay, and the end of the  *)
(* claim lookup window.                                                    *)

\* this.bot.blockAt(target) on bot b: the bot the call started on has the
\* target loaded; another bot object has no world before login (blockAt
\* throws) and no chunk at the target before it arrives (null)
Observations(b) ==
    IF b = call.bot THEN {world}
    ELSE IF attempts[b].spawned THEN {NULL, world}
    ELSE {"throws", NULL}

\* the verification of each handler finds the action not carried out
NotDone(kind, pre, obs) ==
    CASE kind = "place_block" -> obs = NULL \/ obs = "air"
      [] kind = "break_block" -> ~(obs = NULL \/ obs = "air" \/ obs # pre)
      [] kind = "place_sign" -> obs = NULL \/ obs # "oak_sign"
      [] kind = "place_chest" -> obs = NULL \/ obs # "chest"
      [] OTHER -> FALSE

\* editSign: textUnchanged && lines.length > 0
TextUnchanged(pre, obs, lines) ==
    pre # NULL /\ obs # NULL /\ pre = obs /\ lines

\* the handler returns res with the listeners ls and the timers tm
Finish(c, ls, tm, res, text) ==
    /\ call' = Return(c, res, text, NULL)
    /\ listeners' = ls
    /\ timers' = tm
    /\ sent' = sent

\* checkClaimStatus(this.bot) up to its timer: listener, /trustlist, 1.5 s
StartLookup(c, ls, tm) ==
    /\ call' = [c EXCEPT !.phase = "lookup", !.lbot = bot]
    /\ listeners' = ls \cup {<<bot, "lookup">>}
    /\ sent' = sent + 1
    /\ timers' = Append(tm, Timer("lookup", LookupWindow, 0))

\* a protected-action tool is called on a connected session (requireBot
\* passes); pre is what the target holds, lines is whether edit_sign was
\* given text.  A closure that is not awaited runs here: it throws, or the
\* settle delay starts; done is whether the server carries the action out.
StartAction(kind, pre, lines) ==
    /\ call.phase = "idle"
    /\ pre \in PreStates(kind)
    /\ lines \in (IF kind = "edit_sign" THEN BOOLEAN ELSE {FALSE})
    /\ bot # 0
    /\ attempts[bot].spawned
    /\ attempts[bot].transport = "live"
    /\ LET c == [call EXCEPT !.kind = kind, !.pre = pre,
                             !.lines = lines, !.bot = bot]
       IN  IF Awaited(kind)
           THEN /\ call' = [c EXCEPT !.phase = "acting"]
                /\ listeners' = listeners \cup {<<bot, "action">>}
                /\ world' = pre
                /\ UNCHANGED timers
           ELSE \E throws, done \in BOOLEAN :
                  /\ throws => ~done
                  /\ world' = IF done THEN Effect(kind) ELSE pre
                  /\ IF throws
                     THEN /\ call' = Return(c, "failed", NULL, NULL)
                          /\ UNCHANGED <<listeners, timers>>
                     ELSE /\ call' = [c EXCEPT !.phase = "settle"]
                          /\ listeners' = listeners \cup {<<bot, "action">>}
                          /\ timers' = Append(timers,
                                Timer("settle",
                                      IF kind = "edit_sign"
                                      THEN EditSettleDelay
                                      ELSE SettleDelay, 0))
    /\ UNCHANGED iovars
    /\ UNCHANGED <<connectionState, connectArgs, reconnectAttempt,
                   lastDisconnectReason, bot, attempts, sent>>

\* the awaited action closure settles.  On a throw the catch block calls
\* this.bot.removeListener and returns an error; with this.bot null that
\* call throws and callTool returns the error.
ClosureSettles(throws, done) ==
    /\ call.phase = "acting"
    /\ throws => ~done
    /\ world' = IF done THEN Effect(call.kind) ELSE world
    /\ IF throws
       THEN /\ listeners' = IF bot = 0 THEN listeners
                            ELSE RemoveListener(listeners, bot, "action")
            /\ call' = Return(call, "failed", NULL, NULL)
            /\ UNCHANGED timers
       ELSE /\ call' = [call EXCEPT !.phase = "settle"]
            /\ timers' = Append(timers, Timer("settle", SettleDelay, 0))
            /\ UNCHANGED listeners
    /\ UNCHANGED iovars
    /\ UNCHANGED <<connectionState, connectArgs, reconnectAttempt,
                   lastDisconnectReason, bot, attempts, sent>>

\* after the settle delay and this.bot.removeListener: the verification
\* with the observation obs, the listeners ls and the timers tm.  wr is
\* whether placeSign's update_sign write throws, item whether
\* createChestShop finds the item to sell.
Verify(obs, ls, tm, wr, item) ==
    LET c == [call EXCEPT !.obs = obs]
    IN  IF call.kind \in {"mount_entity", "interact_entity"}
        THEN IF call.denials # <<>>
             THEN Finish(call, ls, tm, "denied", Head(call.denials))
             ELSE Finish(call, ls, tm, "success", NULL)
        ELSE IF obs = "throws"
        THEN Finish(call, ls, tm, "failed", NULL)
        ELSE IF call.kind = "edit_sign"
        THEN IF TextUnchanged(call.pre, obs, call.lines)
             THEN StartLookup([c EXCEPT !.silent = (call.denials = <<>>)], ls, tm)
             ELSE Finish(c, ls, tm, "success", NULL)
        ELSE IF NotDone(call.kind, call.pre, obs)
        THEN IF call.denials # <<>>
             THEN StartLookup(c, ls, tm)
             ELSE Finish(c, ls, tm, "failed", NULL)
        ELSE IF call.kind = "place_sign"
        THEN IF wr
             THEN Finish(c, ls, tm, "failed", NULL)
             ELSE /\ call' = [c EXCEPT !.phase = "textwait"]
                  /\ listeners' = ls
                  /\ timers' = Append(tm, Timer("textwait", TextWait, 0))
                  /\ sent' = sent
        ELSE IF call.kind = "place_chest"
        THEN IF item
             THEN /\ call' = [c EXCEPT !.phase = "shop"]
                  /\ listeners' = ls
                  /\ timers' = tm
                  /\ sent' = sent
             ELSE Finish(c, ls, tm, "failed", NULL)
        ELSE Finish(c, ls, tm, "success", NULL)

\* the settle delay is over: this.bot.removeListener (a TypeError that
\* callTool turns into an error result when this.bot is null), then the
\* re-observation and the verification
SettleFire(i) ==
    /\ CanFire(i)
    /\ timers[i].kind = "settle"
    /\ IF bot = 0
       THEN Finish(call, listeners, Remove(timers, i), "failed", NULL)
       ELSE \E obs \in Observations(bot) : \E wr, item \in BOOLEAN :
               Verify(obs, RemoveListener(listeners, bot, "action"),
                      Remove(timers, i), wr, item)
    /\ world' = world
    /\ UNCHANGED iovars
    /\ UNCHANGED <<connectionState, connectArgs, reconnectAttempt,
                   lastDisconnectReason, bot, attempts>>

\* placeSign after its 250 ms wait: the sign is read back
TextWaitFire(i) ==
    /\ CanFire(i)
    /\ timers[i].kind = "textwait"
    /\ IF bot = 0
       THEN Finish(call, listeners, Remove(timers, i), "failed", NULL)
       ELSE \E obs \in Observations(bot) :
               Finish(call, listeners, Remove(timers, i),
                      IF obs = "throws" THEN "failed" ELSE "success", NULL)
    /\ world' = world
    /\ UNCHANGED iovars
    /\ UNCHANGED <<connectionState, connectArgs, reconnectAttempt,
                   lastDisconnectReason, bot, attempts>>

\* createChestShop after the chest placement (stocking, equipping, looking,
\* /qs create), taken as one step: it goes through (ok) or returns an
\* error; every part of it uses this.bot
ShopDone(ok) ==
    /\ call.phase = "shop"
    /\ call' = Return(call, IF bot # 0 /\ ok THEN "success" ELSE "failed",
                      NULL, NULL)
    /\ UNCHANGED iovars
    /\ UNCHANGED <<connectionState, connectArgs, reconnectAttempt,
                   lastDisconnectReason, bot, attempts, timers,
                   listeners, world, sent>>

\* the 1.5 s timer of checkClaimStatus: its listener is removed from the
\* bot it was given, and the handler builds its result from claimInfo
LookupFire(i) ==
    /\ CanFire(i)
    /\ timers[i].kind = "lookup"
    /\ listeners' = RemoveListener(listeners, call.lbot, "lookup")
    /\ timers' = Remove(timers, i)
    /\ call' =
         IF ~call.silent
         THEN Return(call, "denied", Head(call.denials), call.claimInfo.owner)
         ELSE IF call.claimInfo.claimed /\ call.claimInfo.owner # NULL
         THEN Return(call, "denied", NULL, call.claimInfo.owner)
         ELSE Return(call, "success", NULL, NULL)
    /\ UNCHANGED iovars
    /\ UNCHANGED <<connectionState, connectArgs, reconnectAttempt,
                   lastDisconnectReason, bot, attempts, world, sent>>

\* bot b emits 'message' with text m: every temporary listener on b runs
BotMessage(b, m) ==
    /\ b \in 1..Len(attempts)
    /\ attempts[b].transport = "live"
    /\ \E who \in {"action", "lookup"} : <<b, who>> \in listeners
    /\ (<<b, "action">> \in listeners /\ IsDenial(m))
          => Len(call.denials) < MaxDenials
    /\ call' = [call EXCEPT
                 !.denials = IF <<b, "action">> \in listeners /\ IsDenial(m)
                             THEN Append(@, m) ELSE @,
                 !.claimInfo = IF <<b, "lookup">> \in listeners
                               THEN ParseTrust(@, m) ELSE @]
    /\ UNCHANGED iovars
    /\ UNCHANGED <<connectionState, connectArgs, reconnectAttempt,
                   lastDisconnectReason, bot, attempts, timers,
                   listeners, world, sent>>

\* a session that is connected: connect was called, the bot spawned and
\* the 30 s timer of the attempt has fired
ConnectedSession ==
    [phase |-> "open", resolved |-> TRUE, promise |-> "fulfilled",
     transport |-> "live", spawned |-> TRUE, errored |-> FALSE,
     handlers |-> 1]

ActionInit ==
    /\ connectionState = "connected"
    /\ connectArgs = "credA"
    /\ reconnectAttempt = 0
    /\ lastDisconnectReason = NULL
    /\ bot = 1
    /\ attempts = <<ConnectedSession>>
    /\ timers = <<>>
    /\ NoActionYet
    /\ NoChatYet

\* the call is being followed: it has started and not returned
InProgress == call.phase \notin {"idle", "done"}

\* the protected action, and the session operations and transport events
\* that can come between its steps
ActionNext ==
    \/ \E kind \in Kinds : \E pre \in PreStates(kind) : \E lines \in BOOLEAN :
          StartAction(kind, pre, lines)
    \/ \E throws, done \in BOOLEAN : ClosureSettles(throws, done)
    \/ \E i \in 1..Len(timers) : SettleFire(i)
    \/ \E i \in 1..Len(timers) : TextWaitFire(i)
    \/ \E ok \in BOOLEAN : ShopDone(ok)
    \/ \E i \in 1..Len(timers) : LookupFire(i)
    \/ \E b \in 1..Len(attempts) : \E m \in Messages : BotMessage(b, m)
    \/ InProgress /\ Len(attempts) < MaxSessions /\ Connect("credA")
    \/ InProgress /\ Disconnect
    \/ InProgress /\ \E i \in 1..Len(timers) : CleanupDone(i)
    \/ InProgress /\ \E i \in 1..Len(timers) : RetryFire(i)
    \/ InProgress /\ \E i \in 1..Len(timers) : TimeoutFire(i)
    \/ InProgress /\ \E a \in 1..Len(attempts) : BotSpawn(a)
    \/ InProgress /\ \E a \in 1..Len(attempts) : BotError(a)
    \/ InProgress /\ \E a \in 1..Len(attempts) : BotKicked(a)
    \/ InProgress /\ \E a \in 1..Len(attempts) : BotEnd(a)

SpecAction == ActionInit /\ [][ActionNext]_vars

----------------------------------------------------------------------------
(* mcp.openContainer (tools/containers.js), followed from the call to its  *)
(* result                                                                  *)

OpenTimeout == 5000

\* open_container is called on a connected session (requireBot passes) and
\* the block at the target is a container: bot.openContainer is started and
\* raced against the 5 s timer
StartOpen ==
    /\ call.phase = "idle"
    /\ bot # 0
    /\ attempts[bot].spawned
    /\ attempts[bot].transport = "live"
    /\ call' = [call EXCEPT !.kind = "open_container", !.phase = "opening",
                            !.bot = bot]
    /\ timers' = Append(timers, Timer("open", OpenTimeout, 0))
    /\ UNCHANGED iovars
    /\ UNCHANGED <<connectionState, connectArgs, reconnectAttempt,
                   lastDisconnectReason, bot, attempts, listeners, world,
                   sent>>

\* bot.openContainer settles before the timer: with a window (the result is
\* built from it and from this.bot.inventory), with an error whose message
\* holds 'timeout' (the catch block runs checkClaimStatus(this.bot)), or
\* with another error.  With this.bot null the first two throw a TypeError.
OpenSettles(outcome) ==
    /\ call.phase = "opening"
    /\ IF outcome = "timeout" /\ bot # 0
       THEN StartLookup(call, listeners, timers)
       ELSE Finish(call, listeners, timers,
                   IF outcome = "window" /\ bot # 0 THEN "success"
                   ELSE "failed", NULL)
    /\ world' = world
    /\ UNCHANGED iovars
    /\ UNCHANGED <<connectionState, connectArgs, reconnectAttempt,
                   lastDisconnectReason, bot, attempts>>

\* the 5 s timer rejects with 'TIMEOUT'.  While the race is undecided the
\* catch block runs checkClaimStatus(this.bot): a TypeError with this.bot
\* null, which callTool turns into an error result.  After the race was
\* decided the rejection has no effect.
OpenFire(i) ==
    /\ CanFire(i)
    /\ timers[i].kind = "open"
    /\ IF call.phase # "opening"
       THEN /\ timers' = Remove(timers, i)
            /\ UNCHANGED <<call, listeners, sent>>
       ELSE IF bot = 0
       THEN Finish(call, listeners, Remove(timers, i), "failed", NULL)
       ELSE StartLookup(call, listeners, Remove(timers, i))
    /\ world' = world
    /\ UNCHANGED iovars
    /\ UNCHANGED <<connectionState, connectArgs, reconnectAttempt,
                   lastDisconnectReason, bot, attempts>>

\* the 1.5 s timer of the checkClaimStatus call of openContainer: the
\* listener is removed from the bot it was given and the handler returns
\* container_access_denied with claim_info: claimInfo
OpenLookupFire(i) ==
    /\ CanFire(i)
    /\ timers[i].kind = "lookup"
    /\ call.kind = "open_container"
    /\ listeners' = RemoveListener(listeners, call.lbot, "lookup")
    /\ timers' = Remove(timers, i)
    /\ call' = Return(call, "container_access_denied", NULL,
                      call.claimInfo.owner)
    /\ UNCHANGED iovars
    /\ UNCHANGED <<connectionState, connectArgs, reconnectAttempt,
                   lastDisconnectReason, bot, attempts, world, sent>>

\* open_container, and the session operations and transport events that
\* can come between its steps
OpenNext ==
    \/ StartOpen
    \/ \E outcome \in {"window", "timeout", "error"} : OpenSettles(outcome)
    \/ \E i \in 1..Len(timers) : OpenFire(i)
    \/ \E i \in 1..Len(timers) : OpenLookupFire(i)
    \/ \E b \in 1..Len(attempts) : \E m \in Messages : BotMessage(b, m)
    \/ InProgress /\ Len(attempts) < MaxSessions /\ Connect("credA")
    \/ InProgress /\ Disconnect
    \/ InProgress /\ \E i \in 1..Len(timers) : CleanupDone(i)
    \/ InProgress /\ \E i \in 1..Len(timers) : RetryFire(i)
    \/ InProgress /\ \E i \in 1..Len(timers) : TimeoutFire(i)
    \/ InProgress /\ \E a \in 1..Len(attempts) : BotSpawn(a)
    \/ InProgress /\ \E a \in 1..Len(attempts) : BotError(a)
    \/ InProgress /\ \E a \in 1..Len(attempts) : BotKicked(a)
    \/ InProgress /\ \E a \in 1..Len(attempts) : BotEnd(a)

SpecOpen == ActionInit /\ [][OpenNext]_vars

\* the two timers of the call fire
FairOpen ==
    /\ SpecOpen
    /\ WF_vars(\E i \in 1..Len(timers) : OpenFire(i))
    /\ WF_vars(\E i \in 1..Len(timers) : OpenLookupFire(i))

----------------------------------------------------------------------------
(* A second call of placeBlock or breakBlock (tools/building.js) running   *)
(* beside the first one, on a target of its own.  callTool awaits nothing  *)
(* between requests, so the steps of two tool calls interleave.            *)

\* the second call starts on a connected session: its capture listener is
\* attached and the action closure is awaited
StartOther(kind, pre) ==
    /\ other.phase = "idle"
    /\ kind \in {"place_block", "break_block"}
    /\ pre \in PreStates(kind)
    /\ bot # 0
    /\ attempts[bot].spawned
    /\ attempts[bot].transport = "live"
    /\ other' = [other EXCEPT !.kind = kind, !.phase = "acting", !.pre = pre,
                              !.target = pre, !.bot = bot]
    /\ listeners' = listeners \cup {<<bot, "other">>}
    /\ UNCHANGED <<chatLog, now, signPlacementTime, events, claimInfo,
                   lookupState, reply>>
    /\ UNCHANGED <<connectionState, connectArgs, reconnectAttempt,
                   lastDisconnectReason, bot, attempts, timers, call, world,
                   sent>>

\* its action closure settles: on a throw the listener is removed from
\* this.bot and an error returned, else the 300 ms settle delay starts
OtherSettles(throws, done) ==
    /\ other.phase = "acting"
    /\ throws => ~done
    /\ LET o == [other EXCEPT
                   !.target = IF done THEN Effect(other.kind) ELSE @]
       IN  IF throws
           THEN /\ listeners' = IF bot = 0 THEN listeners
                                ELSE RemoveListener(listeners, bot, "other")
                /\ other' = Return(o, "failed", NULL, NULL)
                /\ UNCHANGED timers
           ELSE /\ other' = [o EXCEPT !.phase = "settle"]
                /\ timers' = Append(timers, Timer("othersettle", SettleDelay, 0))
                /\ UNCHANGED listeners
    /\ UNCHANGED <<chatLog, now, signPlacementTime, events, claimInfo,
                   lookupState, reply>>
    /\ UNCHANGED <<connectionState, connectArgs, reconnectAttempt,
                   lastDisconnectReason, bot, attempts, call, world, sent>>

\* its settle delay is over: the listener is removed from this.bot, the
\* target is observed again, and a target left as it was is reported as
\* protected by a claim, after a claim lookup, when a denial was captured
OtherSettleFire(i) ==
    /\ CanFire(i)
    /\ timers[i].kind = "othersettle"
    /\ IF bot = 0
       THEN /\ other' = Return(other, "failed", NULL, NULL)
            /\ timers' = Remove(timers, i)
            /\ UNCHANGED <<listeners, sent>>
       ELSE \E obs \in (IF bot = other.bot THEN {other.target}
                        ELSE IF attempts[bot].spawned
                             THEN {NULL, other.target}
                             ELSE {"throws", NULL}) :
              IF obs # "throws" /\ NotDone(other.kind, other.pre, obs)
                 /\ other.denials # <<>>
              THEN /\ other' = [other EXCEPT !.phase = "lookup", !.lbot = bot]
                   /\ listeners' = RemoveListener(listeners, bot, "other")
                                      \cup {<<bot, "otherlookup">>}
                   /\ sent' = sent + 1
                   /\ timers' = Append(Remove(timers, i),
                                       Timer("otherlookup", LookupWindow, 0))
              ELSE /\ other' = Return(other,
                                 IF obs = "throws"
                                    \/ NotDone(other.kind, other.pre, obs)
                                 THEN "failed" ELSE "success", NULL, NULL)
                   /\ listeners' = RemoveListener(listeners, bot, "other")
                   /\ timers' = Remove(timers, i)
                   /\ sent' = sent
    /\ UNCHANGED <<chatLog, now, signPlacementTime, events, claimInfo,
                   lookupState, reply>>
    /\ UNCHANGED <<connectionState, connectArgs, reconnectAttempt,
                   lastDisconnectReason, bot, attempts, call, world>>

\* the end of its claim lookup window
OtherLookupFire(i) ==
    /\ CanFire(i)
    /\ timers[i].kind = "otherlookup"
    /\ listeners' = RemoveListener(listeners, other.lbot, "otherlookup")
    /\ timers' = Remove(timers, i)
    /\ other' = Return(other, "denied", Head(other.denials),
                       other.claimInfo.owner)
    /\ UNCHANGED <<chatLog, now, signPlacementTime, events, claimInfo,
                   lookupState, reply>>
    /\ UNCHANGED <<connectionState, connectArgs, reconnectAttempt,
                   lastDisconnectReason, bot, attempts, call, world, sent>>

\* bot b emits 'message' with text m: every temporary listener of either
\* call that is attached to b runs
PairMessage(b, m) ==
    /\ b \in 1..Len(attempts)
    /\ attempts[b].transport = "live"
    /\ \E who \in {"action", "lookup", "other", "otherlookup"} :
          <<b, who>> \in listeners
    /\ (<<b, "action">> \in listeners /\ IsDenial(m))
          => Len(call.denials) < MaxDenials
    /\ (<<b, "other">> \in listeners /\ IsDenial(m))
          => Len(other.denials) < MaxDenials
    /\ call' = [call EXCEPT
                 !.denials = IF <<b, "action">> \in listeners /\ IsDenial(m)
                             THEN Append(@, m) ELSE @,
                 !.claimInfo = IF <<b, "lookup">> \in listeners
                               THEN ParseTrust(@, m) ELSE @]
    /\ other' = [other EXCEPT
                  !.denials = IF <<b, "other">> \in listeners /\ IsDenial(m)
                              THEN Append(@, m) ELSE @,
                  !.claimInfo = IF <<b, "otherlookup">> \in listeners
                                THEN ParseTrust(@, m) ELSE @]
    /\ UNCHANGED <<chatLog, now, signPlacementTime, events, claimInfo,
                   lookupState, reply>>
    /\ UNCHANGED <<connectionState, connectArgs, reconnectAttempt,
                   lastDisconnectReason, bot, attempts, timers,
                   listeners, world, sent>>

\* two calls of placeBlock or breakBlock on a session that stays connected
PairNext ==
    \/ \E kind \in {"place_block", "break_block"} : \E pre \in PreStates(kind) :
          StartAction(kind, pre, FALSE)
    \/ \E throws, done \in BOOLEAN : ClosureSettles(throws, done)
    \/ \E i \in 1..Len(timers) : SettleFire(i)
    \/ \E i \in 1..Len(timers) : LookupFire(i)
    \/ \E kind \in {"place_block", "break_block"} : \E pre \in PreStates(kind) :
          StartOther(kind, pre)
    \/ \E throws, done \in BOOLEAN : OtherSettles(throws, done)
    \/ \E i \in 1..Len(timers) : OtherSettleFire(i)
    \/ \E i \in 1..Len(timers) : OtherLookupFire(i)
    \/ \E b \in 1..Len(attempts) : \E m \in Messages : PairMessage(b, m)

SpecPair == ActionInit /\ [][PairNext]_vars

----------------------------------------------------------------------------
(* The events of a connected bot and the listeners they run.  The chat-log *)
(* handlers are attached by the promise executor of connect, the capture   *)
(* listener by a protected action, the lookup listener by                  *)
(* checkClaimStatus.                                                       *)

\* bot b emits 'message' with the text s and the position tag: the chat-log
\* handler runs, then the capture listener and the lookup listener if they
\* are attached to b
Message(b, s, position) ==
    /\ b \in 1..Len(attempts)
    /\ attempts[b].transport = "live"
    /\ events < MaxEvents
    /\ events' = events + 1
    /\ LET r == Handle(attempts[b].handlers, chatLog, signPlacementTime[b], s,
                       position, now)
       IN  /\ chatLog' = r.log
           /\ signPlacementTime' = [signPlacementTime EXCEPT ![b] = r.spt]
    /\ call' = IF <<b, "action">> \in listeners /\ TextTests[s].denies
               THEN [call EXCEPT !.denials = Append(@, s)]
               ELSE call
    /\ claimInfo' = IF <<b, "claims">> \in listeners
                    THEN ParseLine(claimInfo, s)
                    ELSE claimInfo
    /\ UNCHANGED <<now, lookupState, reply, other>>
    /\ UNCHANGED <<connectionState, connectArgs, reconnectAttempt,
                   lastDisconnectReason, bot, attempts, timers,
                   listeners, world, sent>>

\* bot b emits 'chat' for a line that user said
Chat(b, user, message) ==
    /\ b \in 1..Len(attempts)
    /\ attempts[b].transport = "live"
    /\ events < MaxEvents
    /\ events' = events + 1
    /\ chatLog' = OnChat(chatLog, user, message, now)
    /\ UNCHANGED <<now, signPlacementTime, claimInfo, lookupState, reply, other>>
    /\ UNCHANGED pavars
    /\ UNCHANGED <<connectionState, connectArgs, reconnectAttempt,
                   lastDisconnectReason, bot, attempts, timers>>

\* time passes
Tick ==
    /\ now < Epoch + MaxTicks * TickLength
    /\ now' = now + TickLength
    /\ UNCHANGED <<chatLog, signPlacementTime, events, claimInfo, lookupState,
                   reply, other>>
    /\ UNCHANGED pavars
    /\ UNCHANGED <<connectionState, connectArgs, reconnectAttempt,
                   lastDisconnectReason, bot, attempts, timers>>

\* place_block waiting for bot.placeBlock, its capture listener attached
PlacingBlock ==
    [NoCall EXCEPT !.kind = "place_block", !.phase = "acting", !.pre = "air",
                   !.bot = 1]

\* a connected session whose log holds no entry, one less than its capacity
\* or as many as its capacity; no protected action, or place_block with its
\* verification window open
ChatInit ==
    /\ connectionState = "connected"
    /\ connectArgs = "credA"
    /\ reconnectAttempt = 0
    /\ lastDisconnectReason = NULL
    /\ bot = 1
    /\ attempts = <<ConnectedSession>>
    /\ timers = <<>>
    /\ sent = 0
    /\ \/ /\ call = NoCall
          /\ listeners = {}
          /\ world = NULL
       \/ /\ call = PlacingBlock
          /\ listeners = {<<1, "action">>}
          /\ world = "air"
    /\ chatLog \in {OldLog(n) : n \in {0, LogCapacity - 1, LogCapacity}}
    /\ now = Epoch
    /\ signPlacementTime = [a \in 1..MaxAttempts |-> 0]
    /\ events = 0
    /\ claimInfo = EmptyClaimInfo
    /\ lookupState = "idle"
    /\ reply = NoReply
    /\ other = NoOther

ChatNext ==
    \/ /\ events < MaxChatEvents
       /\ \E s \in ChatTexts : \E position \in Positions :
             Message(1, s, position)
    \/ events < MaxChatEvents /\ Chat(1, T_Alice, T_Hi)
    \/ Tick

SpecChat == ChatInit /\ [][ChatNext]_vars

\* one line of the server that reaches the bot as a 'message' event first
\* and as the 'chat' event of Alice after it
DedupNext ==
    \/ /\ events = 0
       /\ \E s \in ChatTexts : \E position \in Positions :
             Message(1, s, position)
    \/ events = 1 /\ Chat(1, T_Alice, T_Hi)
    \/ Tick

SpecDedup == ChatInit /\ [][DedupNext]_vars

----------------------------------------------------------------------------
(* mcp.getChatHistory *)

MaxHistory == 4
MaxLimit == 5
DefaultLimit == 20
MsPerSecond == 1000

\* new Date(t).toLocaleTimeString(): the time of day to the second
LocaleTime(t) == t \div MsPerSecond

\* the text of a tool result is a sequence of lines, a line a sequence of
\* characters and fields
NoMessages == <<<<"No chat messages yet">>>>

\* the line of the entry m: [time] [SYSTEM] message, or [time] <user> message
HistoryLine(m) ==
    IF m.type = "system"
    THEN <<"[", LocaleTime(m.timestamp), "]", " ", "[SYSTEM]", " ">> \o m.message
    ELSE <<"[", LocaleTime(m.timestamp), "]", " ", "<">> \o m.user
            \o <<">", " ">> \o m.message

\* log.slice(-limit): -0 is 0, so a limit of 0 starts at the first entry
SliceLast(log, limit) ==
    LET start == IF limit = 0 THEN 0
                 ELSE IF Len(log) - limit < 0 THEN 0 ELSE Len(log) - limit
    IN  SubSeq(log, start + 1, Len(log))

\* what getChatHistory returns for the log and the limit
ChatHistoryResult(log, limit) ==
    LET recent == SliceLast(log, limit)
    IN  IF Len(recent) = 0
        THEN Text(NoMessages)
        ELSE Text([i \in 1..Len(recent) |-> HistoryLine(recent[i])])

\* the tool called with the limit (DefaultLimit when the argument is left
\* out); the text is the sequence of the lines that join('\n') puts together
GetChatHistory(limit) ==
    /\ reply' = ChatHistoryResult(chatLog, limit)
    /\ UNCHANGED <<chatLog, now, signPlacementTime, events, claimInfo,
                   lookupState, other>>
    /\ UNCHANGED pavars
    /\ UNCHANGED <<connectionState, connectArgs, reconnectAttempt,
                   lastDisconnectReason, bot, attempts, timers>>

\* the entry logged in second i: a chat line or a system message
EntriesAt(i) ==
    {ChatEntry(T_Alice, T_Hi, i * MsPerSecond),
     SystemEntry(T_Info, "system", i * MsPerSecond)}

\* the logs of n entries, one entry logged per second
RECURSIVE LogsOf(_)
LogsOf(n) ==
    IF n = 0 THEN {<<>>}
    ELSE {Append(log, e) : log \in LogsOf(n - 1), e \in EntriesAt(n)}

\* the log of a session: up to MaxHistory entries, or full
HistoryInit ==
    /\ connectionState = "disconnected"
    /\ connectArgs = NULL
    /\ reconnectAttempt = 0
    /\ lastDisconnectReason = NULL
    /\ bot = 0
    /\ attempts = <<>>
    /\ timers = <<>>
    /\ NoActionYet
    /\ chatLog \in UNION {LogsOf(n) : n \in 0..MaxHistory}
                    \cup {OldLog(LogCapacity)}
    /\ now = Epoch + MaxHistory * MsPerSecond
    /\ signPlacementTime = [a \in 1..MaxAttempts |-> 0]
    /\ events = 0
    /\ claimInfo = EmptyClaimInfo
    /\ lookupState = "idle"
    /\ reply = NoReply
    /\ other = NoOther

HistoryNext ==
    \E limit \in 0..MaxLimit \cup {DefaultLimit} : GetChatHistory(limit)

SpecHistory == HistoryInit /\ [][HistoryNext]_vars

----------------------------------------------------------------------------
(* The chat log across sessions: connects, disconnects and reconnects, and *)
(* the messages of every bot whose transport is open.                      *)

\* the texts the server sends in this specification
LogTexts == {T_Info}

LogNext ==
    \/ /\ events < MaxLogEvents
       /\ \E b \in 1..Len(attempts) : \E s \in LogTexts :
             Message(b, s, "system")
    \/ Len(attempts) < MaxSessions /\ Connect("credA")
    \/ Disconnect
    \/ \E i \in 1..Len(timers) : CleanupDone(i)
    \/ \E i \in 1..Len(timers) : RetryFire(i)
    \/ \E i \in 1..Len(timers) : TimeoutFire(i)
    \/ \E a \in 1..Len(attempts) : BotSpawn(a)
    \/ \E a \in 1..Len(attempts) : BotError(a)
    \/ \E a \in 1..Len(attempts) : BotKicked(a)
    \/ \E a \in 1..Len(attempts) : BotEnd(a)

SpecLog == Init /\ [][LogNext]_vars

----------------------------------------------------------------------------
(* checkClaimStatus(bot), followed on its own from the call to the end of  *)
(* its capture window                                                      *)

\* checkClaimStatus(b): the listener is attached, /trustlist is sent and
\* the timer of the window is started
CheckClaimStatus(b) ==
    /\ lookupState = "idle"
    /\ b \in 1..Len(attempts)
    /\ attempts[b].transport = "live"
    /\ claimInfo' = EmptyClaimInfo
    /\ listeners' = listeners \cup {<<b, "claims">>}
    /\ sent' = sent + 1
    /\ timers' = Append(timers, Timer("claims", LookupWindow, b))
    /\ lookupState' = "pending"
    /\ UNCHANGED <<chatLog, now, signPlacementTime, events, reply, other>>
    /\ UNCHANGED <<call, world>>
    /\ UNCHANGED <<connectionState, connectArgs, reconnectAttempt,
                   lastDisconnectReason, bot, attempts>>

\* a window that resolves and leaves its listener attached
WindowElapsesKeepsListener(i) ==
    /\ CanFire(i)
    /\ timers[i].kind = "claims"
    /\ timers' = Remove(timers, i)
    /\ lookupState' = "resolved"
    /\ UNCHANGED <<chatLog, now, signPlacementTime, events, claimInfo, reply, other>>
    /\ UNCHANGED <<call, listeners, world, sent>>
    /\ UNCHANGED <<connectionState, connectArgs, reconnectAttempt,
                   lastDisconnectReason, bot, attempts>>

\* the 1.5 s timer fires: the listener is removed from the bot it was
\* attached to and the promise resolves with claimInfo
WindowElapses(i) ==
    /\ CanFire(i)
    /\ timers[i].kind = "claims"
    /\ listeners' = RemoveListener(listeners, timers[i].att, "claims")
    /\ timers' = Remove(timers, i)
    /\ lookupState' = "resolved"
    /\ UNCHANGED <<chatLog, now, signPlacementTime, events, claimInfo, reply, other>>
    /\ UNCHANGED <<call, world, sent>>
    /\ UNCHANGED <<connectionState, connectArgs, reconnectAttempt,
                   lastDisconnectReason, bot, attempts>>

\* a connected session with an empty log and no lookup
LookupInit ==
    /\ connectionState = "connected"
    /\ connectArgs = "credA"
    /\ reconnectAttempt = 0
    /\ lastDisconnectReason = NULL
    /\ bot = 1
    /\ attempts = <<ConnectedSession>>
    /\ timers = <<>>
    /\ NoActionYet
    /\ NoChatYet

LookupNext ==
    \/ CheckClaimStatus(1)
    \/ \E s \in TrustLines : Message(1, s, "system")
    \/ \E i \in 1..Len(timers) : WindowElapses(i)
    \/ Disconnect

SpecLookup == LookupInit /\ [][LookupNext]_vars

\* the timer of the window fires
FairLookup == SpecLookup /\ WF_vars(\E i \in 1..Len(timers) : WindowElapses(i))

----------------------------------------------------------------------------
(* MinecraftMCP.callTool *)

\* the tools of the model: chat calls requireBot, get_chat_history does not
RegisteredTools == {"chat", "get_chat_history"}

\* the properties every object inherits from Object.prototype: functions,
\* and __proto__, which is an object
PrototypeFunctions == {"toString", "hasOwnProperty"}

PrototypeObjects == {"__proto__"}

\* the names a request can carry
ToolNames ==
    RegisteredTools \cup PrototypeFunctions \cup PrototypeObjects \cup {"fly"}

\* this.handlers[name], handlers being a plain object
HandlerOf(name) ==
    IF name \in RegisteredTools THEN "handler"
    ELSE IF name \in PrototypeFunctions THEN "function"
    ELSE IF name \in PrototypeObjects THEN "object"
    ELSE "undefined"

\* the isError result of the catch block for an error with the message msg
Caught(msg) == ErrorResult(<<<<"Error: ">> \o msg>>)

\* the message of the error requireBot throws
RequireBotMessage ==
    IF connectionState = "reconnecting"
    THEN <<"Reconnecting (attempt ", reconnectAttempt, "/",
           maxReconnectAttempts, "). Please wait and try again.">>
    ELSE IF connectionState = "connecting"
    THEN <<"Connection in progress. Please wait and try again.">>
    ELSE <<IF lastDisconnectReason # NULL THEN lastDisconnectReason
           ELSE "Not connected",
           ". Auto-reconnect will retry if credentials are stored.">>

\* what a function returns that is not a tool result: a bare string
BareString(s) == [structured |-> FALSE, isError |-> FALSE, text |-> <<<<s>>>>]

\* callTool for the tool name; throws is whether bot.chat throws
CallTool(name, throws) ==
    /\ name \in ToolNames
    /\ reply' =
         CASE HandlerOf(name) = "undefined" ->
                ErrorResult(<<<<"Error: Unknown tool: ", name>>>>)
           [] HandlerOf(name) = "object" ->
                Caught(<<"handler is not a function">>)
           [] name = "toString" -> BareString("[object Undefined]")
           [] name = "hasOwnProperty" ->
                Caught(<<"Cannot convert undefined or null to object">>)
           [] name = "get_chat_history" ->
                ChatHistoryResult(chatLog, DefaultLimit)
           [] name = "chat" ->
                IF bot = 0 THEN Caught(RequireBotMessage)
                ELSE IF throws THEN Caught(<<"write failed">>)
                ELSE Text(<<<<"Sent: ", "hi">>>>)
    /\ UNCHANGED <<chatLog, now, signPlacementTime, events, claimInfo,
                   lookupState, other>>
    /\ UNCHANGED pavars
    /\ UNCHANGED <<connectionState, connectArgs, reconnectAttempt,
                   lastDisconnectReason, bot, attempts, timers>>

\* tool calls between the steps of the session manager
ToolNext ==
    \/ \E name \in ToolNames : \E throws \in BOOLEAN : CallTool(name, throws)
    \/ \E c \in Creds : Len(attempts) < MaxSessions /\ Connect(c)
    \/ Disconnect
    \/ \E i \in 1..Len(timers) : CleanupDone(i)
    \/ \E i \in 1..Len(timers) : RetryFire(i)
    \/ \E i \in 1..Len(timers) : TimeoutFire(i)
    \/ \E a \in 1..Len(attempts) : BotSpawn(a)
    \/ \E a \in 1..Len(attempts) : BotError(a)
    \/ \E a \in 1..Len(attempts) : BotKicked(a)
    \/ \E a \in 1..Len(attempts) : BotEnd(a)

SpecTool == Init /\ [][ToolNext]_vars

----------------------------------------------------------------------------
(* Vocabulary of the properties *)

ConnectCall == \E c \in Creds : Connect(c)

\* attempt a is in flight: in its cleanup wait, or its bot is open and the
\* request is not settled
InFlight(atts, a) ==
    \/ atts[a].phase = "wait"
    \/ atts[a].transport = "live" /\ ~atts[a].resolved

InFlightCount(atts) == Cardinality({a \in 1..Len(atts) : InFlight(atts, a)})

RetryTimers(tm) == {i \in 1..Len(tm) : tm[i].kind = "retry"}

\* a bot object is created in this step
BotCreated ==
    \E a \in 1..Len(attempts') :
        /\ attempts'[a].transport = "live"
        /\ a \in 1..Len(attempts) => attempts[a].transport = "none"

\* a connection attempt whose bot was created fails in this step: its request
\* is rejected (transport error, 30 s timeout), or its transport ends by
\* itself before the request was settled
AttemptFails ==
    \E a \in 1..Len(attempts) :
        /\ attempts[a].phase = "open"
        /\ ~attempts[a].resolved
        /\ \/ attempts'[a].promise = "rejected"
           \/ attempts[a].transport = "live" /\ attempts'[a].transport = "ended"

----------------------------------------------------------------------------
(* C1: a connect request issued while connecting or reconnecting creates   *)
(* and quits no bot and leaves connectionState unchanged, so that at most  *)
(* one connection attempt is in flight at any time.                        *)
C1_BusyRejectedOneInFlight ==
    [][ /\ (ConnectCall /\ Busy) =>
              UNCHANGED <<connectionState, bot, attempts, timers>>
        /\ InFlightCount(attempts') <= 1 ]_vars

(* C2: when the retry timer armed by scheduleReconnect fires for a session *)
(* that is reconnecting with credentials retained, a fresh connection      *)
(* attempt starts.                                                         *)
C2_RetryStartsAttempt ==
    [][ ( /\ \E i \in 1..Len(timers) : RetryFire(i)
          /\ connectionState = "reconnecting"
          /\ connectArgs # NULL )
        => Len(attempts') = Len(attempts) + 1 ]_vars

(* C3: a connection attempt that fails while credentials are retained and  *)
(* the budget remains schedules another retry and increments the counter.  *)
C3_FailureReentersBackoff ==
    [][ ( /\ AttemptFails
          /\ connectArgs' # NULL
          /\ reconnectAttempt < maxReconnectAttempts )
        => /\ reconnectAttempt' = reconnectAttempt + 1
           /\ Cardinality(RetryTimers(timers')) = Cardinality(RetryTimers(timers)) + 1 ]_vars

C5_DelayFormula ==
    \A i \in RetryTimers(timers) :
        timers[i].delay = Min(2000 * Pow2(reconnectAttempt - 1), 300000)

(* C6: an end event in state connected with credentials retained and       *)
(* budget left moves to reconnecting in that step, with reconnectAttempt 1 *)
(* and exactly one new retry timer of 2000 ms.                             *)
C6_EndWhileConnected ==
    [][ \A a \in 1..Len(attempts) :
          ( /\ BotEnd(a)
            /\ connectionState = "connected"
            /\ connectArgs # NULL
            /\ reconnectAttempt < maxReconnectAttempts )
          => /\ connectionState' = "reconnecting"
             /\ reconnectAttempt' = 1
             /\ timers' = Append(timers, Timer("retry", 2000, 0)) ]_vars

C6_Witness ==
    /\ connectionState = "reconnecting"
    /\ reconnectAttempt = 1
    /\ bot = 0
    /\ \E i \in RetryTimers(timers) : timers[i].delay = 2000
    /\ \E a \in 1..Len(attempts) : attempts[a].spawned /\ attempts[a].transport = "ended"

(* C7: from an explicit disconnect until the next explicit connect call    *)
(* (credentials are null exactly then) no bot is created and               *)
(* connectionState stays disconnected.                                     *)
C7_NoConnectionAfterDisconnect ==
    [][ (connectArgs = NULL /\ connectArgs' = NULL)
        => ~BotCreated /\ connectionState' = "disconnected" ]_vars

(* C8: disconnect leaves connectArgs null, reconnectAttempt 0,             *)
(* connectionState disconnected and bot null, whatever the state before.   *)
C8_DisconnectPost ==
    [][ Disconnect
        => /\ connectArgs' = NULL
           /\ reconnectAttempt' = 0
           /\ connectionState' = "disconnected"
           /\ bot' = 0 ]_vars

C8_Witness ==
    /\ connectArgs = NULL
    /\ reconnectAttempt = 0
    /\ connectionState = "disconnected"
    /\ bot = 0
    /\ RetryTimers(timers) # {}
    /\ \E a \in 1..Len(attempts) : attempts[a].transport = "quit"

(* C9: in state connected or reconnecting the credentials are non-null,    *)
(* and credentials become null only through disconnect.                    *)
C9_CredentialsArmed ==
    [][ /\ connectionState' \in {"connected", "reconnecting"} => connectArgs' # NULL
        /\ (connectArgs # NULL /\ connectArgs' = NULL) => Disconnect ]_vars

(* C10: connectionState becomes connected only from connecting.            *)
C10_ConnectedOnlyFromConnecting ==
    [][ (connectionState # "connected" /\ connectionState' = "connected")
        => connectionState = "connecting" ]_vars

(* C11: every connect request that passed the busy check is settled in the *)
(* end (fulfilled on spawn, rejected on transport error or at the 30 s     *)
(* timeout; an end before spawn leads to its rejection), and in every step *)
(* that rejects a request connectionState is disconnected afterwards       *)
(* (runs that use up the model's supply of attempts are left out).         *)
C11_ConnectCompletes ==
    /\ [][ \A a \in 1..Len(attempts) :
             (attempts[a].promise = "pending" /\ attempts'[a].promise = "rejected")
             => connectionState' = "disconnected" ]_vars
    /\ \A a \in 1..MaxAttempts :
         (a <= Len(attempts) /\ attempts[a].promise = "pending")
            ~> \/ a <= Len(attempts) /\ attempts[a].promise # "pending"
               \/ Len(attempts) = MaxAttempts

\* transports created and neither quit nor ended
LiveTransports(atts) == {a \in 1..Len(atts) : atts[a].transport = "live"}

(* C12: at every moment at most one transport connection is live (created  *)
(* and not yet quit or ended).                                             *)
C12_OneLiveTransport == Cardinality(LiveTransports(attempts)) <= 1

(* C13: reconnectAttempt is 0 whenever connectionState is connected, and   *)
(* it goes back to 0 only in a spawn step that ends in connected or in an  *)
(* explicit disconnect.                                                    *)
C13_CounterReset ==
    /\ connectionState = "connected" => reconnectAttempt = 0
    /\ [][ /\ connectionState' = "connected" => reconnectAttempt' = 0
           /\ (reconnectAttempt > 0 /\ reconnectAttempt' = 0)
              => \/ Disconnect
                 \/ /\ connectionState' = "connected"
                    /\ \E a \in 1..Len(attempts) : BotSpawn(a) ]_vars

C13_Witness ==
    /\ connectionState = "connected"
    /\ reconnectAttempt = 0
    /\ connectArgs # NULL
    /\ RetryTimers(timers) # {}
    /\ \E a, b \in 1..Len(attempts) :
          /\ a < b
          /\ attempts[a].spawned /\ attempts[a].transport = "ended"
          /\ attempts[b].spawned /\ attempts[b].promise = "fulfilled"
          /\ bot = b

----------------------------------------------------------------------------
(* Vocabulary of the protected-action properties *)

\* the call has returned
Returned == call.phase = "done"

\* the target as the call last saw it: the re-observation of the handlers
\* that make one, the target itself for mount_entity and interact_entity
Seen ==
    IF call.kind \in {"mount_entity", "interact_entity"} THEN world
    ELSE call.obs

\* the target was observed before the action and is as it was then
NoChange == call.pre # NULL /\ Seen = call.pre

\* the target is observed and differs from what it was before the action
ShowsChange == Seen \notin {"unobserved", "throws"} /\ Seen # call.pre

\* the capture listener of the call is attached to the bot it was put on
ActionListenerOn == <<call.bot, "action">> \in listeners

LookupListenerOn == <<call.lbot, "lookup">> \in listeners

\* the action closure throws in this step
ClosureThrows ==
    /\ call.phase \in {"idle", "acting"}
    /\ call'.phase = "done"

(* C14: for every protected action type, a call that returns with the      *)
(* target unchanged and at least one denial message captured returns a     *)
(* denial carrying the first captured text, after a /trustlist lookup      *)
(* whose owner is attached to the result.                                  *)
C14_DenialWithLookup ==
    (Returned /\ NoChange /\ call.denials # <<>>)
        => /\ call.result = "denied"
           /\ call.text = call.denials[1]
           /\ sent >= 1
           /\ call.owner = call.claimInfo.owner

(* C15: a protected action returns success only if the observation after   *)
(* the action shows a change of the target relative to the observation     *)
(* before it.                                                              *)
C15_SuccessOnlyOnChange ==
    call.result = "success" => ShowsChange

(* C16: for place_block, break_block, place_sign and the chest placement,  *)
(* a call that returns with the target unchanged and no denial message     *)
(* captured returns a failure (neither success nor denial) and no          *)
(* /trustlist command was sent.                                            *)
C16_SilentFailure ==
    ( /\ Returned
      /\ call.kind \in {"place_block", "break_block", "place_sign", "place_chest"}
      /\ NoChange
      /\ call.denials = <<>> )
        => call.result = "failed" /\ sent = 0

(* C17: an edit_sign call that was given text and returns with the sign    *)
(* text unchanged and no denial message captured has attempted a claim     *)
(* lookup and returns a failure (a denial when the lookup found an owner), *)
(* never success.                                                          *)
C17_EditSignSilentReject ==
    ( /\ Returned
      /\ call.kind = "edit_sign"
      /\ call.lines
      /\ NoChange
      /\ call.denials = <<>> )
        => /\ sent >= 1
           /\ call.result \in {"denied", "failed"}
           /\ call.result = "denied" <=> call.claimInfo.owner # NULL

(* C18: once the settle delay of a call is over its capture listener is no *)
(* longer attached to the bot it was attached to, and once the call has    *)
(* returned neither is the listener of its claim lookup.                   *)
C18_ListenersRemoved ==
    /\ call.phase \notin {"idle", "acting", "settle"} => ~ActionListenerOn
    /\ Returned => ~LookupListenerOn

(* C19: a protected action during which the session of its bot was         *)
(* disconnected (quit or ended transport) does not return success.         *)
C19_NoSuccessAfterDisconnect ==
    [][ (call.result = "pending" /\ call'.result = "success")
        => attempts[call'.bot].transport = "live" ]_vars

(* C20: when the action closure throws, the call returns a failure in that *)
(* step: no settle timer is armed, the target is not re-observed, no       *)
(* /trustlist is sent and the capture listener is removed.                 *)
C20_ThrowEndsProtocol ==
    [][ ClosureThrows
        => /\ call'.result = "failed"
           /\ timers' = timers
           /\ call'.obs = "unobserved"
           /\ sent' = sent
           /\ <<call'.bot, "action">> \notin listeners' ]_vars

----------------------------------------------------------------------------
(* Vocabulary of the chat-log properties *)

\* the capture listener of the protected action is attached to bot 1
WindowOpen == <<1, "action">> \in listeners

\* the texts that carry the vocabulary of a permission denial
DenialTexts == {T_Deny, T_DenyPrivate}

(* C21: while the verification window of place_block is open, every        *)
(* message of bot 1 whose text carries denial vocabulary adds that text    *)
(* once to the denial messages of the window, on each of the channels      *)
(* chat, system and game_info and whether the chat log takes the message   *)
(* or not.                                                                 *)
C21_DenialCapturedOnce ==
    [][ \A s \in DenialTexts : \A position \in Positions :
          (WindowOpen /\ Message(1, s, position))
              => call'.denials = Append(call.denials, s) ]_vars

\* both denial texts were captured and the chat log took neither
C21_Witness ==
    /\ WindowOpen
    /\ call.denials = <<T_DenyPrivate, T_Deny>>
    /\ chatLog = <<>>

\* the log holds the chat line (Alice, "hi"), less than 1000 ms old
SaidJustNow ==
    \E i \in 1..Len(chatLog) :
        /\ chatLog[i].type = "chat"
        /\ chatLog[i].user = T_Alice
        /\ chatLog[i].message = T_Hi
        /\ now - chatLog[i].timestamp < DedupWindow

(* C22: when the chat event (Alice, "hi") was logged less than 1000 ms ago *)
(* the system message "Alice: hi" adds no entry to the chat log, of any    *)
(* kind: the two events leave one entry in total.                          *)
C22_DuplicateDiscarded ==
    [][ (SaidJustNow /\ Message(1, T_AliceHi, "system"))
          => chatLog' = chatLog ]_vars

\* a sign-placement notice: "placed a sign @" or "places a sign @"
SignNotices == {T_SignPlaced, T_SignPlaces}

\* no entry was logged and no denial message captured in this step
Dropped ==
    /\ chatLog' = chatLog
    /\ call'.denials = call.denials

(* C23: a sign-placement notice ("... placed a sign @ ..." or "... places  *)
(* a sign @ ...") on the system or game_info channel is dropped, and so is *)
(* the line "  Hello" on those channels less than 500 ms after the notice  *)
(* the handler recorded: neither adds a chat-log entry or a denial         *)
(* message.                                                                *)
C23_SignLinesDropped ==
    [][ \A position \in {"system", "game_info"} :
          /\ \A s \in SignNotices : Message(1, s, position) => Dropped
          /\ (now - signPlacementTime[1] < SignWindow
                /\ Message(1, T_SignLine, position)) => Dropped ]_vars

(* C24: the chat log never holds more than 100 entries; every chat or      *)
(* message event that changes it appends one entry at the end, evicting    *)
(* the oldest entry, and only that one, when the log was full, and keeps   *)
(* the other entries in their order.                                       *)
C24_LogBounded ==
    /\ [](Len(chatLog) <= LogCapacity)
    /\ [][ chatLog' # chatLog
             => /\ chatLog' # <<>>
                /\ LET e == chatLog'[Len(chatLog')]
                   IN  chatLog' = IF Len(chatLog) < LogCapacity
                                  THEN Append(chatLog, e)
                                  ELSE Append(Tail(chatLog), e) ]_vars

\* a full log took two more entries: its two oldest entries are gone
C24_Witness ==
    /\ Len(chatLog) = LogCapacity
    /\ events = 2
    /\ chatLog[1] = SystemEntry(T_Info, "system", 3)
    /\ chatLog[LogCapacity].timestamp >= Epoch

----------------------------------------------------------------------------
(* Vocabulary of the tool-result properties *)

\* the last k entries of the log
LastEntries(log, k) == SubSeq(log, Len(log) - k + 1, Len(log))

\* the lines of the entries q, in their order
LinesOf(q) == [i \in 1..Len(q) |-> HistoryLine(q[i])]

(* C30: getChatHistory with a limit >= 0 returns the lines of the last     *)
(* min(limit, length) entries of the chat log in insertion order (the      *)
(* no-messages text when that is no entry, as for limit = 0), and leaves   *)
(* the log as it was.                                                      *)
C30_HistoryIsRecentEntries ==
    [][ \A limit \in 0..MaxLimit :
          GetChatHistory(limit)
            => /\ chatLog' = chatLog
               /\ LET k == Min(limit, Len(chatLog))
                  IN  reply' = IF k = 0
                               THEN Text(NoMessages)
                               ELSE Text(LinesOf(LastEntries(chatLog, k))) ]_vars

\* some bot emits 'message'
SomeMessage ==
    \E b \in 1..Len(attempts) : \E s \in LogTexts : Message(b, s, "system")

(* C25: whatever connects, disconnects and reconnects came before, every   *)
(* bot with an open transport carries exactly one chat-log 'message'       *)
(* handler, and a message event of a bot adds at most one entry to the     *)
(* chat log.                                                               *)
C25_OneLogHandler ==
    /\ [](\A b \in 1..Len(attempts) :
             attempts[b].transport = "live" => attempts[b].handlers = 1)
    /\ [][ SomeMessage => Len(chatLog') <= Len(chatLog) + 1 ]_vars

\* the bot of a second session logged a message after the first bot ended
C25_Witness ==
    /\ Len(attempts) = 2
    /\ attempts[1].transport = "ended"
    /\ attempts[2].transport = "live"
    /\ bot = 2
    /\ events = 1
    /\ Len(chatLog) = 1

----------------------------------------------------------------------------
(* Vocabulary of the claim-lookup properties *)

\* the names of the example
N_Bob == <<"B", "o", "b">>

N_Carol == <<"C", "a", "r", "o", "l">>

\* the lookup listener is attached to bot 1
ClaimsListenerOn == <<1, "claims">> \in listeners

\* the lines the window received
Received == {claimInfo.raw_messages[i] : i \in 1..Len(claimInfo.raw_messages)}

\* the promise of the lookup has resolved with claimInfo
Resolved == lookupState = "resolved"

(* C26: a lookup whose window received "Owner: Alice" and "Builders: Bob,  *)
(* Carol", in any order and with nothing else but lines that hold no       *)
(* keyword of the parser, resolves with claimed = true, owner "Alice" and  *)
(* builders Bob, Carol; and every line that arrives while the listener is  *)
(* attached is appended to raw_messages.                                   *)
C26_OwnerAndBuilders ==
    /\ []( ( /\ Resolved
             /\ {T_Owner, T_Builders} \subseteq Received
             /\ Received \subseteq {T_Owner, T_Builders, T_Info} )
           => /\ claimInfo.claimed
              /\ claimInfo.owner = T_Alice
              /\ claimInfo.builders = <<N_Bob, N_Carol>> )
    /\ [][ \A s \in TrustLines :
             (ClaimsListenerOn /\ Message(1, s, "system"))
                => claimInfo'.raw_messages = Append(claimInfo.raw_messages, s)
         ]_vars

\* the builders came first, then an unrelated line, then the owner
C26_Witness ==
    /\ Resolved
    /\ claimInfo.raw_messages = <<T_Builders, T_Info, T_Owner>>

(* C27: a lookup whose window received no owner or trust line (nothing,    *)
(* unrelated lines, the no-claim phrase) resolves with claimed = false;    *)
(* and one that received "That command is not recognized" resolves with    *)
(* command_error set, which no other line sets.                            *)
C27_Unclaimed ==
    Resolved
      => /\ Received \cap {T_Owner, T_Builders} = {} => ~claimInfo.claimed
         /\ claimInfo.command_error <=> T_NotRecognized \in Received

\* the no-claim phrase and the unrecognized-command response were received
C27_Witness ==
    /\ Resolved
    /\ claimInfo.raw_messages = <<T_NoClaim, T_NotRecognized>>

(* C28: a lookup sends /trustlist exactly once; its promise resolves once  *)
(* a lookup is pending, whether or not a message arrives; when it has      *)
(* resolved its listener is off the bot; and no later message changes the  *)
(* claimInfo it resolved with.                                             *)
C28_WindowCloses ==
    /\ [](lookupState # "idle" => sent = 1)
    /\ (lookupState = "pending" ~> Resolved)
    /\ [](Resolved => ~ClaimsListenerOn)
    /\ [][ Resolved => claimInfo' = claimInfo ]_vars

\* the owner line arrived inside the window, the no-claim phrase after it
C28_Witness ==
    /\ Resolved
    /\ claimInfo.raw_messages = <<T_Owner>>
    /\ claimInfo.claimed
    /\ Len(chatLog) = 2
    /\ chatLog[2].message = T_NoClaim

\* the tool name of the request has a registered handler
Registered(name) == name \in RegisteredTools

(* C29: callTool returns a structured result for every tool name: for a    *)
(* name without a registered handler the isError result that names the     *)
(* unknown tool, for chat without a bot the isError result with the        *)
(* message of requireBot, and for get_chat_history the result of the       *)
(* handler.                                                                *)
C29_StructuredResult ==
    [][ \A name \in ToolNames : \A throws \in BOOLEAN :
          CallTool(name, throws)
            => /\ reply'.structured
               /\ ~Registered(name)
                    => reply' = ErrorResult(<<<<"Error: Unknown tool: ", name>>>>)
               /\ (name = "chat" /\ bot = 0)
                    => reply' = ErrorResult(<<<<"Error: ">> \o RequireBotMessage>>)
               /\ (name = "chat" /\ bot # 0 /\ throws) => reply'.isError
               /\ name = "get_chat_history"
                    => reply' = ChatHistoryResult(chatLog, DefaultLimit) ]_vars

----------------------------------------------------------------------------
(* C32: a connect request rejected as busy leaves the session unchanged:   *)
(* connectionState, connectArgs, reconnectAttempt, lastDisconnectReason    *)
(* and bot are the same after the call as before it.                       *)
C32_BusyRejectionChangesNothing ==
    [][ (ConnectCall /\ Busy)
        => UNCHANGED <<connectionState, connectArgs, reconnectAttempt,
                       lastDisconnectReason, bot>> ]_vars

\* the bot of a connection attempt later than a is the session's bot: the
\* attempt is still connecting or its connection is established
LaterBot(a) == bot > a /\ attempts[bot].transport = "live"

\* the step neither quits the session's bot nor changes connectionState
SessionUntouched ==
    /\ attempts'[bot].transport = attempts[bot].transport
    /\ connectionState' = connectionState

(* C33: a timer of an earlier attempt never quits the bot of, nor changes  *)
(* the connectionState of, a later attempt or established connection: not  *)
(* the 30 s timeout of an attempt that ended unresolved, and not a backoff *)
(* timer that outlived a disconnect and a new connect (a backoff timer is  *)
(* armed in a step that nulls the bot, so any bot present when it fires    *)
(* was created later).                                                     *)
C33_StaleTimersHarmless ==
    [][ \A i \in 1..Len(timers) :
          /\ (TimeoutFire(i) /\ LaterBot(timers[i].att)) => SessionUntouched
          /\ (RetryFire(i) /\ LaterBot(0)) => SessionUntouched ]_vars

\* the bot of attempt a was quit and a later connect call has started
Superseded(a) == attempts[a].transport = "quit" /\ a < Len(attempts)

(* C34: the end event of a bot that was superseded (quit, with a later     *)
(* connect call started) leaves the bot reference and connectionState as   *)
(* they are and schedules no reconnect.                                    *)
C34_SupersededEndHarmless ==
    [][ \A a \in 1..Len(attempts) :
          (BotEnd(a) /\ Superseded(a))
          => /\ bot' = bot
             /\ connectionState' = connectionState
             /\ timers' = timers ]_vars

(* C35: whenever connectionState is connected the bot reference is         *)
(* non-null.                                                               *)
C35_ConnectedHasBot == connectionState = "connected" => bot # 0

(* C36: whenever the bot reference is non-null (requireBot lets a tool     *)
(* proceed) connectionState is connected.                                  *)
C36_BotOnlyWhenConnected == bot # 0 => connectionState = "connected"

(* C37: reconnectAttempt stays between 0 and maxReconnectAttempts, and it  *)
(* is above 0 only while connectionState is reconnecting or when the       *)
(* budget is used up.                                                      *)
C37_CounterRange ==
    /\ reconnectAttempt \in 0..maxReconnectAttempts
    /\ reconnectAttempt > 0
          => \/ connectionState = "reconnecting"
             \/ reconnectAttempt = maxReconnectAttempts

----------------------------------------------------------------------------
(* C38: when the system message "Alice: hi" was logged as the chat line of *)
(* Alice less than 1000 ms ago, the chat event (Alice, "hi") adds no       *)
(* entry: the two events leave one entry for the utterance.                *)
C38_DedupEitherOrder ==
    [][ (SaidJustNow /\ Chat(1, T_Alice, T_Hi)) => chatLog' = chatLog ]_vars

----------------------------------------------------------------------------
\* the lines of the trust list that make the parser record an owner
OwnerLines ==
    {s \in TrustLines :
        /\ ~Includes(s, Pattern.NoClaimExists)
        /\ ~Includes(s, Pattern.Wilderness)
        /\ OwnerStarts(s) # {}}

\* claimInfo holds an owner (one of the received lines recorded it) or a
\* non-empty trust list
HoldsClaimData ==
    \/ Received \cap OwnerLines # {}
    \/ claimInfo.managers # <<>>
    \/ claimInfo.builders # <<>>
    \/ claimInfo.containers # <<>>
    \/ claimInfo.accessors # <<>>

(* C40: in every order of the received lines, claimInfo has claimed = true *)
(* whenever it holds an owner or a non-empty list of managers, builders,   *)
(* containers or accessors.                                                *)
C40_ClaimInfoConsistent == HoldsClaimData => claimInfo.claimed

----------------------------------------------------------------------------
\* open_container is waiting for bot.openContainer
Opening == call.phase = "opening"

(* C31: when the 5 s timer of open_container fires with the open request   *)
(* not completed, the claim lookup starts in that step with its 1.5 s      *)
(* window; the call returns when that window ends, with the result         *)
(* container_access_denied and the claim info of the lookup; and a call    *)
(* that is waiting for the open request always returns.                    *)
C31_OpenContainerEnds ==
    /\ [][ \A i \in 1..Len(timers) :
             (OpenFire(i) /\ Opening)
             => /\ call'.phase = "lookup"
                /\ timers' = Append(Remove(timers, i),
                                    Timer("lookup", LookupWindow, 0)) ]_vars
    /\ [][ (call.phase = "lookup" /\ call'.phase = "done")
             => /\ \E i \in 1..Len(timers) : OpenLookupFire(i)
                /\ call'.result = "container_access_denied"
                /\ call'.claimInfo = call.claimInfo ]_vars
    /\ Opening ~> Returned

----------------------------------------------------------------------------
\* the step adds a denial message to what the first, the second call captured
CapturedByCall == Len(call'.denials) > Len(call.denials)

CapturedByOther == Len(other'.denials) > Len(other.denials)

(* C39: of two protected actions that run concurrently on targets of their *)
(* own, at most one records a denial message that the server sent: no step *)
(* adds it to the captured denials of both.                                *)
C39_DenialAttributedOnce == [][ ~(CapturedByCall /\ CapturedByOther) ]_vars

====
